---- MODULE Spec2Model ----
(***************************************************************************)
(* A model of the testit mock-server daemon (testit-daemon) and of the     *)
(* request routing it performs.                                            *)
(*                                                                         *)
(*   SpecRouting  request_handler applied to bounded endpoint lists and    *)
(*                requests (the routing / response synthesis functions).   *)
(*   SpecWorkers  one listener's fixed worker pool serving concurrent      *)
(*                requests, with the handler's thread-blocking delay.      *)
(*   SpecSetup    a ServerSetup and its owner: setup_test, start_servers   *)
(*                and the server tasks that start_servers spawns.          *)
(*   Spec         the daemon process: main, init, start_daemon, the        *)
(*                ServerSetup it drives, and the wait for termination.     *)
(*   SpecPorts    a ServerSetup whose servers compete for ports.           *)
(*   SpecRouteFields  request_handler on endpoints with all their fields.  *)
(*   SpecMatcher, SpecMock  is_valid_endpoint and generate_mock_response.  *)
(*   SpecConfig   the configuration's JSON serialization, save and load.   *)
(*   SpecLib, SpecLibIndex  the ServerSetup and Server of testit-lib.      *)
(*                                                                         *)
(* Strings that the code inspects (patterns, paths) are sequences of       *)
(* one-character strings; texts that are only concatenated (bodies, error  *)
(* messages) are sequences of string pieces.                               *)
(***************************************************************************)
EXTENDS Integers, Sequences, FiniteSets, Bags, TLC

VARIABLES
    \* ---- routing (SpecRouting) ----
    rq_endpoints,   \* ServerConfiguration.endpoints of the listener under test
    rq_request,     \* the inbound request: [path, method]
    rq_pc,          \* "recv": request received, "done": response returned
    rq_outcome,     \* what request_handler did: [response, scanned, slept]
    \* ---- worker pool (SpecWorkers) ----
    wk_endpoints,   \* listener -> endpoint list served by that listener
    wk_conns,       \* request id -> [state, listener, worker, request, response]
    \* ---- ServerSetup (SpecSetup and Spec) ----
    servers,        \* ServerSetup.servers: the AppServers' server configurations
    ss_pc,          \* "idle", or "starting" while start_servers runs
    start_calls,    \* number of start_servers calls so far
    attempts,       \* outcomes of the start operations of the current call, in order
    listeners,      \* server tasks created by start_server_http / _https
    start_result,   \* what the last start_servers call returned
    \* ---- daemon process (Spec) ----
    args,           \* Args: [file, id, list]
    config,         \* the AppConfiguration stored in the input file
    pc,             \* position of main
    main_result,    \* what main returned / how the process ended
    \* ---- caller and clients of a ServerSetup (SpecSetup and Spec) ----
    setup_arg,      \* the test_configuration of the last setup_test call
    exchange,       \* the last request a listener answered, with the response
    \* ---- the matcher (SpecMatcher) ----
    mt_endpoint,    \* the EndpointConfiguration given to is_valid_endpoint
    mt_request,     \* the HttpRequest given to it: [path, query, host, method]
    mt_result,      \* what is_valid_endpoint returned
    \* ---- response synthesis (SpecMock) ----
    gm_mock,        \* the MockResponseConfiguration given to generate_mock_response
    gm_result,      \* what generate_mock_response returned
    \* ---- testit-lib ServerSetup (SpecLib) ----
    lb_servers,     \* ServerSetup.servers: the Servers' configurations
    lb_handles,     \* ServerSetup.handles: the tasks the JoinHandles refer to
    lb_tasks,       \* the accept-loop tasks spawned by get_handle, in spawn order
    lb_conns,       \* the connection tasks spawned by the accept loops
    lb_pc,          \* position of the owner of the ServerSetup
    lb_mark,        \* number of tasks that existed when stop_servers last returned
    \* ---- configuration files (SpecConfig) ----
    cf_config,      \* the AppConfiguration that is serialized or saved
    cf_pc,          \* "start", "serialized", "deserialized", "saved", "loaded"
    cf_json,        \* the JSON document serde_json::to_string returned
    cf_file,        \* the file at the path given to save and load
    cf_saved,       \* what save returned
    cf_result       \* what serde_json::from_str or load returned

rq_vars == <<rq_endpoints, rq_request, rq_pc, rq_outcome>>
wk_vars == <<wk_endpoints, wk_conns>>
ss_vars == <<servers, ss_pc, start_calls, attempts, listeners, start_result>>
mn_vars == <<args, config, pc, main_result>>
dm_vars == <<servers, ss_pc, start_calls, attempts, listeners, start_result,
             args, config, pc, main_result>>
io_vars == <<setup_arg, exchange>>
mt_vars == <<mt_endpoint, mt_request, mt_result>>
gm_vars == <<gm_mock, gm_result>>
lb_vars == <<lb_servers, lb_handles, lb_tasks, lb_conns, lb_pc, lb_mark>>
cf_vars == <<cf_config, cf_pc, cf_json, cf_file, cf_saved, cf_result>>
fn_vars == <<mt_endpoint, mt_request, mt_result, gm_mock, gm_result,
             cf_config, cf_pc, cf_json, cf_file, cf_saved, cf_result>>
vars == <<rq_endpoints, rq_request, rq_pc, rq_outcome,
          wk_endpoints, wk_conns,
          servers, ss_pc, start_calls, attempts, listeners, start_result,
          args, config, pc, main_result,
          setup_arg, exchange,
          mt_endpoint, mt_request, mt_result, gm_mock, gm_result,
          lb_servers, lb_handles, lb_tasks, lb_conns, lb_pc, lb_mark,
          cf_config, cf_pc, cf_json, cf_file, cf_saved, cf_result>>

\* ------------------------------------------------------------------ bounds

\* Longest endpoint list of a server in SpecRouting.
MaxEndpoints == 2

\* Number of requests a run of SpecWorkers sends.
MaxRequests == 3

\* Servers a ServerSetup holds at most in SpecSetup.
MaxServers == 2

\* start_servers calls of one run of SpecSetup.
MaxStarts == 2

\* Tests of the configuration file in Spec.
MaxTests == 2

\* Accept-loop tasks spawned in one run of SpecLib.
MaxLibTasks == 2

\* Connections accepted in one run of SpecLib.
MaxLibConns == 1

\* Requests served on one connection in SpecLib.
MaxLibServed == 1

\* ------------------------------------------------------ program constants

\* HttpServer::workers(2): the worker threads of one listener.
Workers == 2

\* ------------------------------------------------------- Option and Result

Some(v) == [some |-> TRUE, val |-> v]
NoneOf(dflt) == [some |-> FALSE, val |-> dflt]

\* ApplicationError (error.rs): the variant and its message.
AppError(kind, msg) == [kind |-> kind, msg |-> msg]
NoError == AppError("none", <<>>)

\* impl Display for ApplicationError: the variant's prefix, then the message.
ErrorPrefix(kind) ==
    CASE kind = "FileError" -> "File error: "
      [] kind = "MissingId" -> "Missing id: "
      [] kind = "CouldNotFindTest" -> "Could not find test: "
      [] kind = "ConfigurationError" -> "Configuration error: "
      [] kind = "ServerStartUpError" -> "Server start up error: "

to_string(err) == <<ErrorPrefix(err.kind)>> \o err.msg

\* ------------------------------------------------------ configuration model

NoBody == NoneOf(<<>>)
NoMock == NoneOf([response |-> NoBody, status |-> 0, headers |-> {}, delay |-> 0])
NoRoute == NoneOf([endpoint |-> <<>>])

MockResponseConfiguration(response, status, headers, delay) ==
    [response |-> response, status |-> status, headers |-> headers, delay |-> delay]

RouteConfiguration(endpoint) == [endpoint |-> endpoint]

EndpointConfiguration(endpoint, method, mock_response, route) ==
    [endpoint |-> endpoint, method |-> method,
     mock_response |-> mock_response, route |-> route]

\* ------------------------------------------------------------------- regex

\* Regex::new: a pattern with a group that is opened and never closed is
\* rejected with a parse error; every other pattern of the alphabet compiles.
RegexNewOk(pattern) == \A i \in 1..Len(pattern) : pattern[i] # "("

RegexError(pattern) == <<"regex parse error: ">> \o pattern \o <<": unclosed group">>

\* Does the compiled pattern, from token i on, match the text starting at
\* position j?  "^" and "$" are the (non-multiline) text anchors, "." is any
\* character, every other token is a literal.
RECURSIVE MatchAt(_, _, _, _)
MatchAt(pattern, text, i, j) ==
    IF i > Len(pattern) THEN TRUE
    ELSE CASE pattern[i] = "^" -> j = 1 /\ MatchAt(pattern, text, i + 1, j)
           [] pattern[i] = "$" -> j = Len(text) + 1 /\ MatchAt(pattern, text, i + 1, j)
           [] pattern[i] = "." -> j <= Len(text) /\ MatchAt(pattern, text, i + 1, j + 1)
           [] OTHER -> /\ j <= Len(text)
                       /\ text[j] = pattern[i]
                       /\ MatchAt(pattern, text, i + 1, j + 1)

\* Regex::is_match: an unanchored search, a match may start at any position.
is_match(pattern, text) == \E j \in 1..(Len(text) + 1) : MatchAt(pattern, text, 1, j)

\* -------------------------------------------------------------- responses

\* The header lines of a response: a bag of (name, value) lines.
NoHeaders == EmptyBag

\* HttpResponseBuilder::append_header: one more line, whatever lines the
\* response has already.
append_header(lines, pair) == lines (+) SetToBag({pair})

\* for (key, value) in mock_response.headers.iter() { append_header(..) }
RECURSIVE AppendHeaders(_, _)
AppendHeaders(lines, pairs) ==
    IF pairs = {}
    THEN lines
    ELSE LET pair == CHOOSE x \in pairs : TRUE
         IN  AppendHeaders(append_header(lines, pair), pairs \ {pair})

HttpResponse(status, headers, body) ==
    [status |-> status, headers |-> headers, body |-> body]

\* HttpResponse::NotImplemented().body("Not implemented")
NotImplemented == HttpResponse(501, NoHeaders, <<"Not implemented">>)

\* HttpResponse::ServiceUnavailable().body(err.to_string())
ServiceUnavailable(err) == HttpResponse(503, NoHeaders, to_string(err))

NoResponse == HttpResponse(0, NoHeaders, <<>>)

Ok(v) == [ok |-> TRUE, val |-> v, err |-> NoError]
Err(v, e) == [ok |-> FALSE, val |-> v, err |-> e]

\* StatusCode::from_u16: accepts 100..=999, anything else is InvalidStatusCode.
StatusCodeOk(status) == status >= 100 /\ status < 1000

\* A generate_mock_response that starts a new builder for a response
\* without body, so that the appended headers are lost.
generate_mock_response_bare_finish(mock_response) ==
    IF ~StatusCodeOk(mock_response.status)
    THEN Err(NoResponse, AppError("ConfigurationError", <<"invalid status code">>))
    ELSE IF mock_response.response.some
         THEN Ok(HttpResponse(mock_response.status,
                              AppendHeaders(NoHeaders, mock_response.headers),
                              mock_response.response.val))
         ELSE Ok(HttpResponse(mock_response.status, NoHeaders, <<>>))

generate_mock_response(mock_response) ==
    IF ~StatusCodeOk(mock_response.status)
    THEN Err(NoResponse, AppError("ConfigurationError", <<"invalid status code">>))
    ELSE Ok(HttpResponse(mock_response.status,
                         AppendHeaders(NoHeaders, mock_response.headers),
                         IF mock_response.response.some
                         THEN mock_response.response.val
                         ELSE <<>>))

\* A handle_endpoint that forwards to the route of an endpoint without mock
\* response; no backend is there to answer.
handle_endpoint_forward_route(endpoint) ==
    IF endpoint.mock_response.some
    THEN [result |-> generate_mock_response(endpoint.mock_response.val),
          slept |-> endpoint.mock_response.val.delay]
    ELSE IF endpoint.route.some
         THEN [result |-> Ok(HttpResponse(502, NoHeaders, <<"Bad gateway">>)), slept |-> 0]
         ELSE [result |-> Ok(NotImplemented), slept |-> 0]

\* A handle_endpoint that answers 200 for an endpoint without a mock response.
handle_endpoint_ok_when_unconfigured(endpoint) ==
    IF endpoint.mock_response.some
    THEN [result |-> generate_mock_response(endpoint.mock_response.val),
          slept |-> endpoint.mock_response.val.delay]
    ELSE [result |-> Ok(HttpResponse(200, NoHeaders, <<>>)), slept |-> 0]

\* handle_endpoint: [result, slept]; slept is the time the calling thread
\* spent in std::thread::sleep before the response was built.
handle_endpoint(endpoint) ==
    IF endpoint.mock_response.some
    THEN [result |-> generate_mock_response(endpoint.mock_response.val),
          slept |-> endpoint.mock_response.val.delay]
    ELSE [result |-> Ok(NotImplemented), slept |-> 0]

\* An is_valid_endpoint that matches the pattern against the whole request
\* target, query included.
is_valid_endpoint_whole_target(request, endpoint) ==
    IF ~RegexNewOk(endpoint.endpoint)
    THEN Err(FALSE, AppError("ConfigurationError", RegexError(endpoint.endpoint)))
    ELSE Ok(is_match(endpoint.endpoint, request.path \o <<"?">> \o request.query)
            /\ request.method = endpoint.method)

is_valid_endpoint(request, endpoint) ==
    IF ~RegexNewOk(endpoint.endpoint)
    THEN Err(FALSE, AppError("ConfigurationError", RegexError(endpoint.endpoint)))
    ELSE Ok(is_match(endpoint.endpoint, request.path)
            /\ request.method = endpoint.method)

\* The Ok(true) arm of request_handler's match.
MatchedArm(endpoint) ==
    LET h == handle_endpoint(endpoint)
    IN  IF h.result.ok THEN h.result.val ELSE NotImplemented

Outcome(response, scanned, slept) ==
    [response |-> response, scanned |-> scanned, slept |-> slept]

RECURSIVE ScanFrom(_, _, _)
RECURSIVE ScanFromLastMatch(_, _, _)

\* An Err arm that skips the malformed endpoint and continues the scan.
InvalidArm_skip_and_continue(endpoints, request, i, err) ==
    ScanFrom(endpoints, request, i + 1)

\* The Err arm of request_handler's match, reached at list position i.
InvalidArm(endpoints, request, i, err) == Outcome(ServiceUnavailable(err), i, 0)

\* A fall-through that answers 404 Not Found.
FallThrough_not_found(endpoints) ==
    Outcome(HttpResponse(404, NoHeaders, <<"Not found">>), Len(endpoints), 0)

\* The fall-through after the loop of request_handler.
FallThrough(endpoints) == Outcome(NotImplemented, Len(endpoints), 0)

\* The loop of request_handler from list position i on.  scanned is the
\* number of endpoints is_valid_endpoint was called for.
\* A scan that does not return at a match: a later match overrides it.
ScanFromLastMatch(endpoints, request, i) ==
    IF i > Len(endpoints) THEN FallThrough(endpoints)
    ELSE LET v == is_valid_endpoint(request, endpoints[i])
             rest == ScanFromLastMatch(endpoints, request, i + 1)
         IN  IF ~v.ok THEN InvalidArm(endpoints, request, i, v.err)
             ELSE IF v.val /\ rest.response = NotImplemented /\ rest.scanned = Len(endpoints)
                  THEN Outcome(MatchedArm(endpoints[i]), i,
                               handle_endpoint(endpoints[i]).slept)
                  ELSE rest

ScanFrom(endpoints, request, i) ==
    IF i > Len(endpoints) THEN FallThrough(endpoints)
    ELSE LET v == is_valid_endpoint(request, endpoints[i])
         IN  IF ~v.ok THEN InvalidArm(endpoints, request, i, v.err)
             ELSE IF v.val
                  THEN Outcome(MatchedArm(endpoints[i]), i,
                               handle_endpoint(endpoints[i]).slept)
                  ELSE ScanFrom(endpoints, request, i + 1)

request_handler(endpoints, request) == ScanFrom(endpoints, request, 1)

\* ------------------------------------------------------- routing inputs

Patterns == { <<"/", "a">>, <<"/", "a", "b">>, <<"^", "/", "$">>, <<"(">> }
Paths == { <<"/">>, <<"/", "a">>, <<"/", "a", "b">> }
EndpointMethods == { "GET", "get" }
RequestMethods == { "GET", "POST" }

Mocks ==
    { MockResponseConfiguration(Some(<<"{}">>), 200, {<<"content-type", "json">>}, 0),
      MockResponseConfiguration(NoBody, 400, {}, 1000),
      MockResponseConfiguration(Some(<<"{}">>), 99, {}, 0) }

Behaviours ==
    { <<Some(m), NoRoute>> : m \in Mocks }
      \cup { <<NoMock, NoRoute>>, <<NoMock, Some(RouteConfiguration(<<"http://backend">>))>> }

Endpoints ==
    { EndpointConfiguration(p, m, b[1], b[2]) :
        p \in Patterns, m \in EndpointMethods, b \in Behaviours }

Min(S) == CHOOSE x \in S : \A y \in S : x <= y

SeqsUpTo(S, n) == UNION { [1..k -> S] : k \in 0..n }

Requests == [path : Paths, method : RequestMethods]

NoRequest == [path |-> <<>>, method |-> ""]
NoOutcome == Outcome(NoResponse, 0, 0)

\* -------------------------------------------------------- SpecRouting

RqIdle ==
    /\ rq_endpoints = <<>>
    /\ rq_request = NoRequest
    /\ rq_pc = "off"
    /\ rq_outcome = NoOutcome

WkIdle ==
    /\ wk_endpoints = <<>>
    /\ wk_conns = <<>>

SsIdle ==
    /\ servers = <<>>
    /\ ss_pc = "idle"
    /\ start_calls = 0
    /\ attempts = <<>>
    /\ listeners = {}
    /\ start_result = Ok("none")

MnIdle ==
    /\ args = [file |-> "", id |-> NoneOf(""), list |-> FALSE]
    /\ config = [tests |-> <<>>]
    /\ pc = "off"
    /\ main_result = Ok("none")

DmIdle == SsIdle /\ MnIdle

\* No exchange between a client and a listener has taken place.
NoExchange ==
    [srv |-> 0, kind |-> "", request |-> NoRequest, response |-> NoResponse]

IoIdle ==
    /\ setup_arg = [id |-> "", servers |-> <<>>]
    /\ exchange = NoExchange

MtIdle ==
    /\ mt_endpoint = EndpointConfiguration(<<>>, "", NoMock, NoRoute)
    /\ mt_request = [path |-> <<>>, query |-> <<>>, host |-> "", method |-> ""]
    /\ mt_result = Ok(FALSE)

GmIdle ==
    /\ gm_mock = NoMock.val
    /\ gm_result = Ok(NoResponse)

CfIdle ==
    /\ cf_config = <<>>
    /\ cf_pc = "off"
    /\ cf_json = <<>>
    /\ cf_file = <<>>
    /\ cf_saved = <<>>
    /\ cf_result = <<>>

FnIdle == MtIdle /\ GmIdle /\ CfIdle

LbIdle ==
    /\ lb_servers = <<>>
    /\ lb_handles = <<>>
    /\ lb_tasks = <<>>
    /\ lb_conns = <<>>
    /\ lb_pc = "off"
    /\ lb_mark = 0

\* The parts of the model a specification does not use.
RestIdle == IoIdle /\ FnIdle /\ LbIdle

\* A listener serving some endpoint list has received a request.
RoutingInit ==
    /\ rq_endpoints \in SeqsUpTo(Endpoints, MaxEndpoints)
    /\ rq_request \in Requests
    /\ rq_pc = "recv"
    /\ rq_outcome = NoOutcome
    /\ WkIdle
    /\ DmIdle
    /\ RestIdle

\* request_handler runs for the received request and returns its response.
RequestHandler ==
    /\ rq_pc = "recv"
    /\ rq_outcome' = request_handler(rq_endpoints, rq_request)
    /\ rq_pc' = "done"
    /\ UNCHANGED <<rq_endpoints, rq_request, wk_vars, dm_vars, io_vars, fn_vars, lb_vars>>

\* The same listener receives its next request.
NextRequest ==
    /\ rq_pc = "done"
    /\ \E r \in Requests : rq_request' = r
    /\ rq_pc' = "recv"
    /\ rq_outcome' = NoOutcome
    /\ UNCHANGED <<rq_endpoints, wk_vars, dm_vars, io_vars, fn_vars, lb_vars>>

RoutingNext == RequestHandler \/ NextRequest

SpecRouting == RoutingInit /\ [][RoutingNext]_vars

\* -------------------------------------------------------- SpecWorkers

\* The two listeners of a server: start_server_http and start_server_https
\* each build an HttpServer of their own, with worker threads of their own.
WkListeners == { "http", "https" }
WkWorkers == 1..Workers

SlowEndpoint ==
    EndpointConfiguration(<<"/", "a", "b">>, "GET",
        Some(MockResponseConfiguration(NoBody, 400, {}, 1000)), NoRoute)
FastEndpoint ==
    EndpointConfiguration(<<"^", "/", "$">>, "GET",
        Some(MockResponseConfiguration(Some(<<"{}">>), 200, {}, 0)), NoRoute)

\* An endpoint whose mock response has an invalid status code, and one
\* whose pattern does not compile.
BadStatusEndpoint ==
    EndpointConfiguration(<<"/", "a", "b">>, "GET",
        Some(MockResponseConfiguration(Some(<<"{}">>), 99, {}, 0)), NoRoute)
BadPatternEndpoint ==
    EndpointConfiguration(<<"(">>, "GET",
        Some(MockResponseConfiguration(Some(<<"{}">>), 200, {}, 0)), NoRoute)

\* An endpoint without mock response and without route.
UnconfiguredEndpoint ==
    EndpointConfiguration(<<"/", "a", "$">>, "GET", NoMock, NoRoute)

WkEndpointLists ==
    { <<SlowEndpoint, FastEndpoint>>,
      <<FastEndpoint, SlowEndpoint>>,
      <<UnconfiguredEndpoint, SlowEndpoint>>,
      <<FastEndpoint, BadStatusEndpoint, BadPatternEndpoint>> }
WkRequests ==
    { [path |-> <<"/", "a", "b">>, method |-> "GET"],
      [path |-> <<"/">>, method |-> "GET"],
      [path |-> <<"/", "a">>, method |-> "GET"] }

NoConn ==
    [state |-> "none", listener |-> "", worker |-> 0,
     request |-> NoRequest, response |-> NoResponse]

\* Both listeners are running and serve the same server configuration
\* (web::Data::new(self.server_configuration.clone()) in both).
WorkersInit ==
    /\ \E eps \in WkEndpointLists : wk_endpoints = [l \in WkListeners |-> eps]
    /\ wk_conns = [r \in 1..MaxRequests |-> NoConn]
    /\ RqIdle
    /\ DmIdle
    /\ RestIdle

\* The worker thread w of listener l is inside std::thread::sleep.
ThreadBlocked(l, w) ==
    \E d \in 1..MaxRequests :
        /\ wk_conns[d].state = "sleeping"
        /\ wk_conns[d].listener = l
        /\ wk_conns[d].worker = w

\* The accept thread of a listener hands its connections to the listener's
\* workers in turn: the worker that gets the listener's next connection.
NextWorker(conns, l) ==
    (Cardinality({ q \in DOMAIN conns : conns[q].listener = l }) % Workers) + 1

\* A client connects to listener l and sends a request; the accept thread
\* hands the connection to a worker of the listener.
Accept(r) ==
    /\ wk_conns[r].state = "none"
    /\ \A q \in 1..(r - 1) : wk_conns[q].state # "none"
    /\ \E l \in WkListeners, req \in WkRequests :
          wk_conns' = [wk_conns EXCEPT ![r] =
                          [state |-> "queued", listener |-> l,
                           worker |-> NextWorker(wk_conns, l),
                           request |-> req, response |-> NoResponse]]
    /\ UNCHANGED <<wk_endpoints, rq_vars, dm_vars, io_vars, fn_vars, lb_vars>>

\* A handler that hands the response over before it sleeps.
AfterHandler_respond_first(conn, outcome) ==
    [conn EXCEPT !.state = "done", !.response = outcome.response]

\* What a worker thread does with a request once request_handler has been
\* entered: a delay keeps the thread in std::thread::sleep.
AfterHandler(conn, outcome) ==
    IF outcome.slept > 0
    THEN [conn EXCEPT !.state = "sleeping"]
    ELSE [conn EXCEPT !.state = "done", !.response = outcome.response]

\* A handler whose failure drops the listener's other waiting connections.
Handle_abort_in_flight(r) ==
    /\ wk_conns[r].state = "queued"
    /\ ~ThreadBlocked(wk_conns[r].listener, wk_conns[r].worker)
    /\ LET o == request_handler(wk_endpoints[wk_conns[r].listener],
                                wk_conns[r].request)
       IN  wk_conns' =
             [q \in DOMAIN wk_conns |->
                IF q = r THEN AfterHandler(wk_conns[r], o)
                ELSE IF /\ o.response.status = 503
                        /\ wk_conns[q].state = "queued"
                        /\ wk_conns[q].listener = wk_conns[r].listener
                     THEN [wk_conns[q] EXCEPT !.state = "done"]
                     ELSE wk_conns[q]]
    /\ UNCHANGED <<wk_endpoints, rq_vars, dm_vars, io_vars, fn_vars, lb_vars>>

\* The worker thread of request r polls its handler: request_handler has no
\* await point, it runs on the thread until it returns.
Handle(r) ==
    /\ wk_conns[r].state = "queued"
    /\ ~ThreadBlocked(wk_conns[r].listener, wk_conns[r].worker)
    /\ wk_conns' = [wk_conns EXCEPT ![r] =
          AfterHandler(wk_conns[r],
                       request_handler(wk_endpoints[wk_conns[r].listener],
                                       wk_conns[r].request))]
    /\ UNCHANGED <<wk_endpoints, rq_vars, dm_vars, io_vars, fn_vars, lb_vars>>

\* A handler that, after its sleep, reads the request from a slot shared by
\* the listener's connections: the slot holds the last request accepted.
SleepElapsed_shared_request(r) ==
    /\ wk_conns[r].state = "sleeping"
    /\ LET last == CHOOSE q \in 1..MaxRequests :
                      /\ wk_conns[q].state # "none"
                      /\ \A p \in 1..MaxRequests : wk_conns[p].state # "none" => p <= q
       IN  wk_conns' = [wk_conns EXCEPT ![r] =
             [wk_conns[r] EXCEPT
                 !.state = "done",
                 !.response = request_handler(wk_endpoints[wk_conns[r].listener],
                                              wk_conns[last].request).response]]
    /\ UNCHANGED <<wk_endpoints, rq_vars, dm_vars, io_vars, fn_vars, lb_vars>>

\* The sleep of request r's handler is over: the response is built and sent.
SleepElapsed(r) ==
    /\ wk_conns[r].state = "sleeping"
    /\ wk_conns' = [wk_conns EXCEPT ![r] =
          [wk_conns[r] EXCEPT
              !.state = "done",
              !.response = request_handler(wk_endpoints[wk_conns[r].listener],
                                           wk_conns[r].request).response]]
    /\ UNCHANGED <<wk_endpoints, rq_vars, dm_vars, io_vars, fn_vars, lb_vars>>

WorkersNext ==
    \E r \in 1..MaxRequests : Accept(r) \/ Handle(r) \/ SleepElapsed(r)

SpecWorkers == WorkersInit /\ [][WorkersNext]_vars

\* -------------------------------------------------------- ServerSetup

HttpsConfiguration(server_certificate, private_key, https_port) ==
    [server_certificate |-> server_certificate, private_key |-> private_key,
     https_port |-> https_port]

NoPort == NoneOf(0)
NoHttps == NoneOf(HttpsConfiguration("", "", 0))

ServerConfiguration(http_port, endpoints, https_config) ==
    [http_port |-> http_port, endpoints |-> endpoints, https_config |-> https_config]

TestConfiguration(id, test_servers) == [id |-> id, servers |-> test_servers]

\* The PEM files that exist and are well-formed.
PemFiles == { "server_cert.pem", "server_key.pem" }

\* ssl_builder: the acceptor is built, then the private key file and the
\* certificate chain file are loaded; each step may fail.
ssl_builder(https_config) ==
    IF https_config.private_key \notin PemFiles
    THEN Err("none", AppError("ServerStartUpError",
                              <<"cannot load ", https_config.private_key>>))
    ELSE IF https_config.server_certificate \notin PemFiles
    THEN Err("none", AppError("ServerStartUpError",
                              <<"cannot load ", https_config.server_certificate>>))
    ELSE Ok("builder")

\* The ports this process has bound.
HeldPorts(ls) == { l.port : l \in ls }

\* A bind with SO_REUSEPORT: the sockets of this process share a port.
BindOk_reuse_port(port, held, in_use) == ~in_use

\* bind(("127.0.0.1", port)): fails when a socket of this process or of
\* another process (in_use) already listens on the port.
BindOk(port, held, in_use) == port \notin held /\ ~in_use

AddrInUse == AppError("ServerStartUpError", <<"Address already in use">>)

\* A server task handed to tokio::spawn: created "spawned", with its socket
\* bound; it accepts connections once the task has been polled.  appstate is
\* the clone of the server configuration its request handlers are given.
Listener(srv, kind, port, appstate) ==
    [srv |-> srv, kind |-> kind, port |-> port, appstate |-> appstate,
     state |-> "spawned"]

StartOutcome(result, outcome, spawned) ==
    [result |-> result, outcome |-> outcome, spawned |-> spawned]

\* A start_server_http that falls back to port 8080 when none is configured.
start_server_http_default_port(server, srv, held, in_use) ==
    IF ~BindOk(IF server.http_port.some THEN server.http_port.val ELSE 8080,
               held, in_use)
    THEN StartOutcome(Err("none", AddrInUse), "failed", {})
    ELSE StartOutcome(Ok("unit"), "bound",
                      { Listener(srv, "http",
                                 IF server.http_port.some
                                 THEN server.http_port.val ELSE 8080,
                                 server) })

\* start_server_http of the AppServer at position srv.
start_server_http(server, srv, held, in_use) ==
    IF ~server.http_port.some
    THEN StartOutcome(Ok("unit"), "noop", {})
    ELSE IF ~BindOk(server.http_port.val, held, in_use)
    THEN StartOutcome(Err("none", AddrInUse), "failed", {})
    ELSE StartOutcome(Ok("unit"), "bound",
                      { Listener(srv, "http", server.http_port.val, server) })

\* A start_server_https that logs a failure and reports success.
start_server_https_swallow(server, srv, held, in_use) ==
    IF ~server.https_config.some
    THEN StartOutcome(Ok("unit"), "noop", {})
    ELSE IF ~ssl_builder(server.https_config.val).ok
              \/ ~BindOk(server.https_config.val.https_port, held, in_use)
    THEN StartOutcome(Ok("unit"), "noop", {})
    ELSE StartOutcome(Ok("unit"), "bound",
                      { Listener(srv, "https", server.https_config.val.https_port,
                                 server) })

\* A start_server_https whose app data has no endpoints.
start_server_https_no_endpoints(server, srv, held, in_use) ==
    IF ~server.https_config.some
    THEN StartOutcome(Ok("unit"), "noop", {})
    ELSE LET b == ssl_builder(server.https_config.val)
         IN  IF ~b.ok
             THEN StartOutcome(Err("none", b.err), "failed", {})
             ELSE IF ~BindOk(server.https_config.val.https_port, held, in_use)
             THEN StartOutcome(Err("none", AddrInUse), "failed", {})
             ELSE StartOutcome(Ok("unit"), "bound",
                      { Listener(srv, "https", server.https_config.val.https_port,
                                 [server EXCEPT !.endpoints = <<>>]) })

\* start_server_https of the AppServer at position srv.
start_server_https(server, srv, held, in_use) ==
    IF ~server.https_config.some
    THEN StartOutcome(Ok("unit"), "noop", {})
    ELSE LET b == ssl_builder(server.https_config.val)
         IN  IF ~b.ok
             THEN StartOutcome(Err("none", b.err), "failed", {})
             ELSE IF ~BindOk(server.https_config.val.https_port, held, in_use)
             THEN StartOutcome(Err("none", AddrInUse), "failed", {})
             ELSE StartOutcome(Ok("unit"), "bound",
                      { Listener(srv, "https", server.https_config.val.https_port,
                                 server) })

\* A setup_test that replaces the collection by the servers of the test.
setup_test_replace(current, test_configuration) == test_configuration.servers

\* setup_test: one AppServer per server of the test, appended in order.
setup_test(current, test_configuration) == current \o test_configuration.servers

\* The position in ServerSetup.servers the loop of start_servers is at.
CurrentServer == (Len(attempts) \div 2) + 1

\* start_servers is entered: the loop starts at the first server.
EnterStartServers ==
    /\ ss_pc' = "starting"
    /\ start_calls' = start_calls + 1
    /\ attempts' = <<>>
    /\ start_result' = Ok("none")

\* One start operation of the loop of start_servers has returned r: an
\* error leaves start_servers at once (the ? operator).
AfterStartOperation(r) ==
    /\ attempts' = Append(attempts, r.outcome)
    /\ listeners' = listeners \cup r.spawned
    /\ IF r.result.ok
       THEN UNCHANGED <<ss_pc, start_result>>
       ELSE /\ ss_pc' = "idle"
            /\ start_result' = Err("returned", r.result.err)

\* server.start_server_http().await? for the current server.
StartServerHttp ==
    /\ ss_pc = "starting"
    /\ Len(attempts) < 2 * Len(servers)
    /\ Len(attempts) % 2 = 0
    /\ \E in_use \in BOOLEAN :
          AfterStartOperation(start_server_http(servers[CurrentServer], CurrentServer,
                                                HeldPorts(listeners), in_use))
    /\ UNCHANGED <<servers, start_calls, mn_vars, rq_vars, wk_vars, io_vars, fn_vars, lb_vars>>

\* server.start_server_https().await? for the current server.
StartServerHttps ==
    /\ ss_pc = "starting"
    /\ Len(attempts) < 2 * Len(servers)
    /\ Len(attempts) % 2 = 1
    /\ \E in_use \in BOOLEAN :
          AfterStartOperation(start_server_https(servers[CurrentServer], CurrentServer,
                                                 HeldPorts(listeners), in_use))
    /\ UNCHANGED <<servers, start_calls, mn_vars, rq_vars, wk_vars, io_vars, fn_vars, lb_vars>>

\* The loop of start_servers is over: Ok(()).
StartServersReturnOk ==
    /\ ss_pc = "starting"
    /\ Len(attempts) = 2 * Len(servers)
    /\ ss_pc' = "idle"
    /\ start_result' = Ok("returned")
    /\ UNCHANGED <<servers, start_calls, attempts, listeners, mn_vars, rq_vars, wk_vars, io_vars, fn_vars, lb_vars>>

\* A runtime that never polls the task of a TLS server.
PollServerTask_http_only ==
    /\ pc # "exited"
    /\ \E l \in listeners :
          /\ l.state = "spawned"
          /\ l.kind = "http"
          /\ listeners' = (listeners \ {l}) \cup { [l EXCEPT !.state = "running"] }
    /\ UNCHANGED <<servers, ss_pc, start_calls, attempts, start_result,
                   mn_vars, rq_vars, wk_vars, io_vars, fn_vars, lb_vars>>

\* The runtime polls a spawned server task for the first time: the server
\* starts its accept loop and its workers.  A spawned task runs concurrently
\* with the task that spawned it, as long as the process lives.
PollServerTask ==
    /\ pc # "exited"
    /\ \E l \in listeners :
          /\ l.state = "spawned"
          /\ listeners' = (listeners \ {l}) \cup { [l EXCEPT !.state = "running"] }
    /\ UNCHANGED <<servers, ss_pc, start_calls, attempts, start_result,
                   mn_vars, rq_vars, wk_vars, io_vars, fn_vars, lb_vars>>

\* The requests clients send to the listeners.
SsRequests ==
    { [path |-> <<"/">>, method |-> "GET"],
      [path |-> <<"/", "a">>, method |-> "GET"] }

\* What the listener l answers to a request: request_handler is given the
\* listener's app data.
Respond(l, request) == request_handler(l.appstate.endpoints, request).response

Exchange(l, request, response) ==
    [srv |-> l.srv, kind |-> l.kind, request |-> request, response |-> response]

\* A client connects to the port of the running listener l and sends a
\* request; a worker of the listener answers it.
ServeBy(l, request) ==
    /\ pc # "exited"
    /\ l \in listeners
    /\ l.state = "running"
    /\ exchange' = Exchange(l, request, Respond(l, request))
    /\ UNCHANGED <<ss_vars, setup_arg, mn_vars, rq_vars, wk_vars, fn_vars, lb_vars>>

ServeRequest == \E l \in listeners, request \in SsRequests : ServeBy(l, request)

ServerSetupNext ==
    \/ StartServerHttp
    \/ StartServerHttps
    \/ StartServersReturnOk
    \/ PollServerTask
    \/ ServeRequest

\* ---------------------------------------------------------- SpecSetup

HttpOnly(port) == ServerConfiguration(Some(port), <<>>, NoHttps)
GoodTls == Some(HttpsConfiguration("server_cert.pem", "server_key.pem", 8443))
BadTls == Some(HttpsConfiguration("missing_cert.pem", "server_key.pem", 8443))

ServerConfigs ==
    { HttpOnly(8080),
      HttpOnly(8081),
      ServerConfiguration(NoPort, <<FastEndpoint>>, GoodTls),
      ServerConfiguration(Some(8080), <<FastEndpoint>>, BadTls),
      ServerConfiguration(Some(8081), <<FastEndpoint>>, GoodTls),
      ServerConfiguration(NoPort, <<>>, NoHttps) }

\* ServerSetup::new(): no servers, nothing started.
SetupInit == SsIdle /\ MnIdle /\ RqIdle /\ WkIdle /\ RestIdle

\* The owner of the ServerSetup calls setup_test(test).
CallSetupTest ==
    /\ ss_pc = "idle"
    /\ \E t \in SeqsUpTo(ServerConfigs, MaxServers) :
          /\ Len(t) > 0
          /\ Len(servers) + Len(t) <= MaxServers
          /\ setup_arg' = TestConfiguration("test", t)
          /\ servers' = setup_test(servers, TestConfiguration("test", t))
    /\ UNCHANGED <<ss_pc, start_calls, attempts, listeners, start_result, exchange,
                   mn_vars, rq_vars, wk_vars, fn_vars, lb_vars>>

\* The owner of the ServerSetup calls start_servers().
CallStartServers ==
    /\ ss_pc = "idle"
    /\ start_calls < MaxStarts
    /\ EnterStartServers
    /\ UNCHANGED <<servers, listeners, mn_vars, rq_vars, wk_vars, io_vars, fn_vars, lb_vars>>

SetupNext == CallSetupTest \/ CallStartServers \/ ServerSetupNext

SpecSetup == SetupInit /\ [][SetupNext]_vars

\* ------------------------------------------------------ daemon process

NoTest == TestConfiguration("", <<>>)

\* The files AppConfiguration::load can read and parse.
ConfigFiles == { "config.json" }

\* read_input_file: AppConfiguration::load(&args.file)
read_input_file(a, stored) ==
    IF a.file \in ConfigFiles
    THEN Ok(stored)
    ELSE Err([tests |-> <<>>], AppError("FileError", <<"No such file or directory">>))

\* A get_test that returns the last test with the id.
get_test_last(id, cfg) ==
    LET found == { i \in 1..Len(cfg.tests) : cfg.tests[i].id = id }
    IN  IF found = {}
        THEN Err(NoTest, AppError("CouldNotFindTest", <<"No test with id: ", id>>))
        ELSE Ok(cfg.tests[CHOOSE i \in found : \A j \in found : j <= i])

\* get_test: config.tests.iter().find(|test| test.id == id)
get_test(id, cfg) ==
    LET found == { i \in 1..Len(cfg.tests) : cfg.tests[i].id = id }
    IN  IF found = {}
        THEN Err(NoTest, AppError("CouldNotFindTest", <<"No test with id: ", id>>))
        ELSE Ok(cfg.tests[CHOOSE i \in found : \A j \in found : i <= j])

\* start_daemon up to its call of setup_test: the test to run.
SelectTest(id, cfg) ==
    IF ~id.some
    THEN Err(NoTest, AppError("MissingId", <<"Missing id">>))
    ELSE get_test(id.val, cfg)

\* start_daemon after start_servers has returned r: map_err wraps the error.
StartDaemonResult(r) ==
    IF r.ok THEN Ok("unit")
    ELSE Err("none", AppError("ServerStartUpError", to_string(r.err)))

\* A main that enters its loop whatever init returned.
MainAfterInit_ignore_error(r) ==
    [pc |-> "wait", main_result |-> Ok("none"), alive |-> TRUE]

\* main after init(args, config).await? has returned r: an error ends main,
\* and with it the process; otherwise main enters its loop.
MainAfterInit(r) ==
    IF r.ok
    THEN [pc |-> "wait", main_result |-> Ok("none"), alive |-> TRUE]
    ELSE [pc |-> "exited", main_result |-> Err("returned", r.err), alive |-> FALSE]

\* main continues as MainAfterInit says; the listeners of a process that
\* has ended are gone.
ContinueMain(m) ==
    /\ pc' = m.pc
    /\ main_result' = m.main_result
    /\ listeners' = IF m.alive THEN listeners ELSE {}

\* main: let config = read_input_file(&args)?;
ReadInputFile ==
    /\ pc = "main"
    /\ LET r == read_input_file(args, config)
       IN  IF r.ok
           THEN /\ pc' = "init"
                /\ UNCHANGED <<main_result, listeners>>
           ELSE /\ pc' = "exited"
                /\ main_result' = Err("returned", r.err)
                /\ listeners' = {}
    /\ UNCHANGED <<args, config, servers, ss_pc, start_calls, attempts, start_result,
                   rq_vars, wk_vars, io_vars, fn_vars, lb_vars>>

\* An init that asks for the id before it looks at args.list.
InitListTests_requires_id ==
    /\ pc = "init"
    /\ args.list
    /\ ContinueMain(MainAfterInit(
          IF args.id.some
          THEN Ok("unit")
          ELSE Err("none", AppError("MissingId", <<"Missing id">>))))
    /\ UNCHANGED <<args, config, servers, ss_pc, start_calls, attempts, start_result,
                   rq_vars, wk_vars, io_vars, fn_vars, lb_vars>>

\* init with args.list: list_tests prints the tests, init returns Ok.
InitListTests ==
    /\ pc = "init"
    /\ args.list
    /\ ContinueMain(MainAfterInit(Ok("unit")))
    /\ UNCHANGED <<args, config, servers, ss_pc, start_calls, attempts, start_result,
                   rq_vars, wk_vars, io_vars, fn_vars, lb_vars>>

\* init without args.list: start_daemon selects the test, loads it with
\* setup_test and calls start_servers; a selection error ends main.
StartDaemon ==
    /\ pc = "init"
    /\ ~args.list
    /\ LET sel == SelectTest(args.id, config)
       IN  IF sel.ok
           THEN /\ setup_arg' = sel.val
                /\ servers' = setup_test(servers, sel.val)
                /\ EnterStartServers
                /\ pc' = "start_servers"
                /\ UNCHANGED <<main_result, listeners>>
           ELSE /\ ContinueMain(MainAfterInit(Err("none", sel.err)))
                /\ UNCHANGED <<servers, ss_pc, start_calls, attempts, start_result,
                               setup_arg>>
    /\ UNCHANGED <<args, config, exchange, rq_vars, wk_vars, fn_vars, lb_vars>>

\* start_servers has returned to start_daemon, which returns to init and main.
StartDaemonReturns ==
    /\ pc = "start_servers"
    /\ ss_pc = "idle"
    /\ ContinueMain(MainAfterInit(StartDaemonResult(start_result)))
    /\ UNCHANGED <<args, config, servers, ss_pc, start_calls, attempts, start_result,
                   rq_vars, wk_vars, io_vars, fn_vars, lb_vars>>

\* wait_for_terminate: a terminate or interrupt signal arrives, exit(0).
Terminate ==
    /\ pc = "wait"
    /\ pc' = "exited"
    /\ main_result' = Ok("exit(0)")
    /\ listeners' = {}
    /\ UNCHANGED <<args, config, servers, ss_pc, start_calls, attempts, start_result,
                   rq_vars, wk_vars, io_vars, fn_vars, lb_vars>>

\* wait_for_terminate: the signal handler cannot be installed; the error
\* ends main.
SignalSetupFails ==
    /\ pc = "wait"
    /\ pc' = "exited"
    /\ main_result' = Err("returned", AppError("ServerStartUpError", <<"signal">>))
    /\ listeners' = {}
    /\ UNCHANGED <<args, config, servers, ss_pc, start_calls, attempts, start_result,
                   rq_vars, wk_vars, io_vars, fn_vars, lb_vars>>

TestIds == { "t1", "t2" }

DaemonServerLists ==
    { <<>>,
      <<HttpOnly(8080)>>,
      <<ServerConfiguration(Some(8080), <<FastEndpoint>>, BadTls)>>,
      <<HttpOnly(8080), HttpOnly(8081)>> }

DaemonTests == { TestConfiguration(id, sl) : id \in TestIds, sl \in DaemonServerLists }

\* The process has been started with some arguments; the input file, if it
\* exists, holds some configuration.
DaemonInit ==
    /\ args \in [file : { "config.json", "missing.json" },
                 id : { NoneOf("") } \cup { Some(id) : id \in TestIds },
                 list : BOOLEAN]
    /\ config \in [tests : SeqsUpTo(DaemonTests, MaxTests)]
    /\ args.file \notin ConfigFiles => config.tests = <<>>
    /\ pc = "main"
    /\ main_result = Ok("none")
    /\ SsIdle
    /\ RqIdle
    /\ WkIdle
    /\ RestIdle

Next ==
    \/ ReadInputFile
    \/ InitListTests
    \/ StartDaemon
    \/ StartDaemonReturns
    \/ Terminate
    \/ SignalSetupFails
    \/ ServerSetupNext

Spec == DaemonInit /\ [][Next]_vars

\* main is a running task: once start_servers has returned, start_daemon,
\* init and main go on to their return or to the loop of main.
FairSpec == Spec /\ WF_vars(StartDaemonReturns)

\* The runtime polls every task that was spawned on it.
FairSpecSetup == SpecSetup /\ WF_vars(PollServerTask)

\* --------------------------------------------- ServerSetup: properties

\* The listener that start_servers creates for a configured port.
HttpBound(ls, i, server) ==
    server.http_port.some =>
        \E l \in ls : l.srv = i /\ l.kind = "http" /\ l.port = server.http_port.val
HttpsBound(ls, i, server) ==
    server.https_config.some =>
        \E l \in ls : /\ l.srv = i
                      /\ l.kind = "https"
                      /\ l.port = server.https_config.val.https_port

\* C7: start_servers returns Ok only if every configured HTTP and TLS port
\* of every loaded listener was bound; a start operation that fails makes
\* start_servers return a ServerStartUpError at once, so that a failure is
\* the last operation of its call and no later listener is attempted.
C7_StartServersFailFast ==
    [][ /\ (ss_pc = "starting" /\ ss_pc' = "idle" /\ start_result'.ok)
            => \A i \in 1..Len(servers') :
                  /\ HttpBound(listeners', i, servers'[i])
                  /\ HttpsBound(listeners', i, servers'[i])
        /\ (ss_pc = "starting" /\ ss_pc' = "idle" /\ ~start_result'.ok)
            => /\ start_result'.err.kind = "ServerStartUpError"
               /\ attempts' # attempts
               /\ attempts'[Len(attempts')] = "failed"
        /\ (attempts' # attempts /\ attempts' # <<>> /\ attempts'[Len(attempts')] = "failed")
            => /\ ss_pc' = "idle"
               /\ ~start_result'.ok
               /\ listeners' = listeners
               /\ \A k \in 1..Len(attempts) : attempts[k] # "failed"
      ]_vars

\* The first server was bound, then the second server's bind failed.
C7_Witness ==
    /\ ss_pc = "idle"
    /\ start_calls = 1
    /\ Len(servers) = 2
    /\ attempts = <<"bound", "noop", "failed">>
    /\ ~start_result.ok
    /\ start_result.err.kind = "ServerStartUpError"

\* C8: once start_servers has returned an error, no listener of the loaded
\* set is accepting and serving requests.
C8_NoPartialSuccess ==
    (ss_pc = "idle" /\ start_calls = 1 /\ ~start_result.ok)
        => \A l \in listeners : l.state # "running"

\* ------------------------------------------------- daemon: properties

StartServersFailed == start_calls > 0 /\ ss_pc = "idle" /\ ~start_result.ok

\* Once start_servers has failed, main is not in its wait loop; when main
\* has returned, it has returned the error wrapped as ServerStartUpError and
\* the process has ended with all its listeners.
AbortedRun ==
    StartServersFailed
        => /\ pc \in { "start_servers", "exited" }
           /\ pc = "exited"
                => /\ main_result =
                        Err("returned",
                            AppError("ServerStartUpError",
                                     <<"Server start up error: ">> \o start_result.err.msg))
                   /\ listeners = {}

\* C9: if start_servers fails inside start_daemon, main never enters its
\* wait loop and it returns: it returns the error wrapped as
\* ServerStartUpError, and the process ends, serving with no listener.
C9_StartFailureAbortsRun ==
    /\ []AbortedRun
    /\ StartServersFailed ~> (pc = "exited" /\ ~main_result.ok)

\* main has returned the start-up error of a run that had bound a port.
C9_Witness ==
    /\ StartServersFailed
    /\ pc = "exited"
    /\ \E k \in 1..Len(attempts) : attempts[k] = "bound"
    /\ ~main_result.ok
    /\ main_result.err.kind = "ServerStartUpError"

TestsWithId(id) == { i \in 1..Len(config.tests) : config.tests[i].id = id }

\* init has run start_daemon (the input file was read, not in list mode).
StartDaemonRan ==
    /\ pc \notin { "main", "init" }
    /\ ~args.list
    /\ args.file \in ConfigFiles

\* C10: not in list mode, start_daemon fails with MissingId when no id is
\* supplied and with CouldNotFindTest when no test has the id, and then no
\* listener has been loaded or bound and start_servers was never called;
\* otherwise the first test of the configuration with the id is loaded.
C10_TestSelection ==
    StartDaemonRan
        => /\ ~args.id.some
                => /\ pc = "exited"
                   /\ main_result = Err("returned", AppError("MissingId", <<"Missing id">>))
                   /\ servers = <<>> /\ listeners = {} /\ start_calls = 0
           /\ (args.id.some /\ TestsWithId(args.id.val) = {})
                => /\ pc = "exited"
                   /\ ~main_result.ok
                   /\ main_result.err.kind = "CouldNotFindTest"
                   /\ servers = <<>> /\ listeners = {} /\ start_calls = 0
           /\ (args.id.some /\ TestsWithId(args.id.val) # {})
                => /\ servers = config.tests[Min(TestsWithId(args.id.val))].servers
                   /\ start_calls = 1

\* No test has the supplied id, although the configuration has tests with
\* servers: the run ends with CouldNotFindTest.
C10_Witness ==
    /\ StartDaemonRan
    /\ args.id.some
    /\ Len(config.tests) = 2
    /\ \A i \in 1..2 : config.tests[i].id # args.id.val /\ config.tests[i].servers # <<>>
    /\ pc = "exited"
    /\ main_result.err.kind = "CouldNotFindTest"

\* ------------------------------------------------- workers: properties

\* The endpoint of its listener that decides request r.
RoutedTo(r) ==
    request_handler(wk_endpoints[wk_conns[r].listener], wk_conns[r].request).scanned

\* C6: a request that is waiting for its handler while another request, to
\* a different endpoint or a different listener, is in its mock delay, can
\* be handled and completed at once: no delay keeps a worker from it.
C6_NoHeadOfLineBlocking ==
    \A r \in 1..MaxRequests, d \in 1..MaxRequests :
        ( /\ wk_conns[r].state = "queued"
          /\ wk_conns[d].state = "sleeping"
          /\ \/ wk_conns[r].listener # wk_conns[d].listener
             \/ RoutedTo(r) # RoutedTo(d) )
            => ENABLED Handle(r)

\* ------------------------------------------------- routing: properties

\* The endpoint's pattern is a regular expression that matches within the
\* path, and the methods are equal.
MatchesEndpoint(request, endpoint) ==
    /\ RegexNewOk(endpoint.endpoint)
    /\ is_match(endpoint.endpoint, request.path)
    /\ request.method = endpoint.method

MatchingIdx == { i \in 1..Len(rq_endpoints) : MatchesEndpoint(rq_request, rq_endpoints[i]) }
InvalidIdx == { i \in 1..Len(rq_endpoints) : ~RegexNewOk(rq_endpoints[i].endpoint) }
HasMatch == MatchingIdx # {}
FirstMatch == rq_endpoints[Min(MatchingIdx)]
\* No endpoint before the first match has a malformed pattern.
FirstMatchReached == \A j \in InvalidIdx : j > Min(MatchingIdx)

\* C1 as stated: whenever some endpoint matches the request, the response
\* is the one produced for the first matching endpoint of the list.
C1_FirstMatchDecides_AsStated ==
    (rq_pc = "done" /\ HasMatch)
        => rq_outcome.response = MatchedArm(FirstMatch)

\* C1 amended: whenever some endpoint matches the request and no endpoint
\* before the first matching one has a malformed pattern, the response is
\* the one produced for the first matching endpoint, the scan ends at it,
\* and no later endpoint (matching or not) determines the response.
C1_FirstMatchDecides ==
    (rq_pc = "done" /\ HasMatch /\ FirstMatchReached)
        => /\ rq_outcome.response = MatchedArm(FirstMatch)
           /\ rq_outcome.scanned = Min(MatchingIdx)

\* GET /ab on ["/a" -> 200, "/ab" -> 400] is answered by the "/a" entry.
C1_Witness ==
    /\ rq_pc = "done"
    /\ Len(rq_endpoints) = 2
    /\ rq_endpoints[1].endpoint = <<"/", "a">>
    /\ rq_endpoints[2].endpoint = <<"/", "a", "b">>
    /\ rq_endpoints[1].method = "GET" /\ rq_endpoints[2].method = "GET"
    /\ rq_endpoints[1].mock_response.some /\ rq_endpoints[1].mock_response.val.status = 200
    /\ rq_endpoints[2].mock_response.some /\ rq_endpoints[2].mock_response.val.status = 400
    /\ rq_request = [path |-> <<"/", "a", "b">>, method |-> "GET"]
    /\ rq_outcome.response.status = 200

\* C2: a request that no endpoint matches, on a server none of whose
\* endpoints has a malformed pattern (the empty list included), is answered
\* with exactly status 501 and body "Not implemented".
C2_NoMatchIs501 ==
    (rq_pc = "done" /\ ~HasMatch /\ InvalidIdx = {})
        => rq_outcome.response = HttpResponse(501, NoHeaders, <<"Not implemented">>)

\* A non-empty list of well-formed endpoints none of which matches.
C2_Witness ==
    /\ rq_pc = "done"
    /\ Len(rq_endpoints) = 2
    /\ ~HasMatch
    /\ InvalidIdx = {}
    /\ rq_outcome.response.status = 501

\* The first matching endpoint has neither a mock response nor a route.
FirstMatchUnconfigured ==
    /\ HasMatch
    /\ ~FirstMatch.mock_response.some
    /\ ~FirstMatch.route.some

\* C3 as stated: when the first matching endpoint has no mock response and
\* no route, the response is exactly 501 "Not implemented" and no later
\* endpoint is consulted.
C3_Unconfigured501_AsStated ==
    (rq_pc = "done" /\ FirstMatchUnconfigured)
        => /\ rq_outcome.response = HttpResponse(501, NoHeaders, <<"Not implemented">>)
           /\ rq_outcome.scanned = Min(MatchingIdx)

\* C3 amended: when the first matching endpoint has no mock response and no
\* route, and no endpoint before it has a malformed pattern, the response is
\* exactly 501 "Not implemented" and no later endpoint is consulted.
C3_Unconfigured501 ==
    (rq_pc = "done" /\ FirstMatchUnconfigured /\ FirstMatchReached)
        => /\ rq_outcome.response = HttpResponse(501, NoHeaders, <<"Not implemented">>)
           /\ rq_outcome.scanned = Min(MatchingIdx)

\* An unconfigured first match followed by a matching endpoint with a mock.
C3_Witness ==
    /\ rq_pc = "done"
    /\ Len(rq_endpoints) = 2
    /\ MatchingIdx = {1, 2}
    /\ FirstMatchUnconfigured
    /\ rq_endpoints[2].mock_response.some
    /\ rq_endpoints[2].mock_response.val.status = 200
    /\ rq_outcome.response.status = 501

\* The scan reaches a malformed pattern before any endpoint has matched.
InvalidReachedFirst ==
    /\ InvalidIdx # {}
    /\ \A j \in MatchingIdx : j > Min(InvalidIdx)

\* C4: when the scan reaches an endpoint with a malformed pattern before any
\* endpoint has matched, the response is 503 with the error text as its body
\* and the scan stops there: the endpoints after it are not evaluated.
C4_InvalidPatternIs503 ==
    (rq_pc = "done" /\ InvalidReachedFirst)
        => /\ rq_outcome.response.status = 503
           /\ rq_outcome.response.body =
                 <<"Configuration error: ">>
                    \o RegexError(rq_endpoints[Min(InvalidIdx)].endpoint)
           /\ rq_outcome.scanned = Min(InvalidIdx)
           /\ rq_outcome = request_handler(SubSeq(rq_endpoints, 1, Min(InvalidIdx)),
                                           rq_request)

\* A malformed endpoint followed by one that would match the request.
C4_Witness ==
    /\ rq_pc = "done"
    /\ Len(rq_endpoints) = 2
    /\ InvalidIdx = {1}
    /\ MatchingIdx = {2}
    /\ rq_endpoints[2].mock_response.some
    /\ rq_outcome.response.status = 503

\* The status is not an HTTP status code of [100, 599].
InvalidStatus(status) == status < 100 \/ status > 599

\* C5: when the first matching endpoint has a mock response whose status
\* code is invalid, the request is answered with status 503.
C5_InvalidStatusIs503 ==
    (rq_pc = "done" /\ HasMatch /\ FirstMatch.mock_response.some
        /\ InvalidStatus(FirstMatch.mock_response.val.status))
        => rq_outcome.response.status = 503

\* --------------------------------------- ServerSetup: setup_test, no-ops

\* C11: a setup_test(test) call appends one listener per entry of
\* test.servers, in the same order, after the listeners already in the
\* collection, which it leaves unchanged; it binds no port, starts no accept
\* loop and starts no start_servers call.
C11_SetupTestAppends ==
    [][ (servers' # servers \/ setup_arg' # setup_arg)
            => /\ Len(servers') = Len(servers) + Len(setup_arg'.servers)
               /\ \A i \in 1..Len(servers) : servers'[i] = servers[i]
               /\ \A k \in 1..Len(setup_arg'.servers) :
                     servers'[Len(servers) + k] = setup_arg'.servers[k]
               /\ listeners' = listeners
               /\ ss_pc' = ss_pc
               /\ start_calls' = start_calls
               /\ attempts' = attempts
      ]_vars

\* A second test was loaded after the first one had been started: its
\* server is the second of the collection and has no listener.
C11_Witness ==
    /\ Len(servers) = 2
    /\ setup_arg.servers = <<servers[2]>>
    /\ servers[1] # servers[2]
    /\ start_calls = 1
    /\ ss_pc = "idle"
    /\ start_result = Ok("returned")
    /\ Len(attempts) = 2
    /\ listeners # {}
    /\ \A l \in listeners : l.srv = 1

\* The server configures neither a plain-HTTP port nor TLS.
BindsNothing(server) == ~server.http_port.some /\ ~server.https_config.some

\* The server whose start operation is the k-th of a start_servers call.
ServerOfAttempt(k) == (k + 1) \div 2

\* C12: a start operation whose configuration field is absent is a no-op
\* that returns success: every plain-HTTP listener is on the http_port of its
\* server and every TLS listener on the https_port of its server's
\* https_config, an operation of a server without the field ends as a no-op
\* and never as a failure, and when no loaded server configures a port
\* start_servers returns Ok and nothing is bound.
C12_AbsentFieldIsNoOp ==
    /\ \A l \in listeners :
          /\ l.kind = "http" => servers[l.srv].http_port = Some(l.port)
          /\ l.kind = "https" =>
                /\ servers[l.srv].https_config.some
                /\ servers[l.srv].https_config.val.https_port = l.port
    /\ \A k \in 1..Len(attempts) :
          /\ (k % 2 = 1 /\ ~servers[ServerOfAttempt(k)].http_port.some)
                => attempts[k] = "noop"
          /\ (k % 2 = 0 /\ ~servers[ServerOfAttempt(k)].https_config.some)
                => attempts[k] = "noop"
    /\ (ss_pc = "idle" /\ start_calls > 0
            /\ \A i \in 1..Len(servers) : BindsNothing(servers[i]))
          => /\ start_result = Ok("returned")
             /\ listeners = {}

\* start_servers has returned Ok for a server with neither field and for a
\* server with TLS only: three no-ops, one TLS listener.
C12_Witness ==
    /\ ss_pc = "idle"
    /\ Len(servers) = 2
    /\ BindsNothing(servers[1])
    /\ ~servers[2].http_port.some /\ servers[2].https_config.some
    /\ attempts = <<"noop", "noop", "noop", "bound">>
    /\ start_result = Ok("returned")
    /\ \A l \in listeners : l.srv = 2 /\ l.kind = "https"

\* ------------------------------------------- ServerSetup: TLS failures

\* The TLS start operation of the server at position i has failed, and
\* start_servers has returned.
TlsStartFailed(i) ==
    /\ ss_pc = "idle"
    /\ Len(attempts) = 2 * i
    /\ attempts[2 * i] = "failed"

\* C13: when the TLS context or the TLS bind of a server fails, only the
\* TLS listener of that server is missing: the plain-HTTP listener of the
\* server, if it has an HTTP port, is bound and goes on serving, and so are
\* the listeners of the other servers that were loaded with it.
C13_TlsFailureIsolated ==
    \A i \in 1..Len(servers) :
        TlsStartFailed(i)
            => /\ HttpBound(listeners, i, servers[i])
               /\ \A j \in 1..Len(servers) :
                     j # i => /\ HttpBound(listeners, j, servers[j])
                              /\ HttpsBound(listeners, j, servers[j])

\* ------------------------------------------ ServerSetup: reachability

\* start_servers has returned Ok, and the server at position i was one of
\* the servers of that call.
StartedOk(i) ==
    /\ ss_pc = "idle"
    /\ start_result = Ok("returned")
    /\ i <= Len(attempts) \div 2

\* The listener of the given kind of the server at position i accepts
\* connections and answers every request.
Accepting(i, kind) ==
    \E l \in listeners :
        /\ l.srv = i
        /\ l.kind = kind
        /\ l.state = "running"
        /\ \A request \in SsRequests : ENABLED ServeBy(l, request)

\* The loop of start_servers is over, start_servers is about to return.
ReturnReady == ss_pc = "starting" /\ Len(attempts) = 2 * Len(servers)

\* C14: after start_servers has returned Ok, the listener of every
\* configured port of every server of the call eventually accepts
\* connections and answers requests, whatever the other listeners do; and
\* start_servers returns as soon as its loop is over, without waiting for a
\* request.
C14_EventuallyAccepts ==
    /\ \A i \in 1..MaxServers :
          /\ (StartedOk(i) /\ servers[i].http_port.some) ~> Accepting(i, "http")
          /\ (StartedOk(i) /\ servers[i].https_config.some) ~> Accepting(i, "https")
    /\ [](ReturnReady => ENABLED StartServersReturnOk)

\* One start_servers call has returned Ok for two servers on distinct ports;
\* both listeners are running and the second has answered a request.
C14_Witness ==
    /\ start_calls = 1
    /\ ss_pc = "idle"
    /\ start_result = Ok("returned")
    /\ Len(servers) = 2
    /\ servers[1].http_port.some /\ servers[2].http_port.some
    /\ servers[1].http_port # servers[2].http_port
    /\ \E l1, l2 \in listeners :
          /\ l1.srv = 1 /\ l2.srv = 2
          /\ l1.state = "running" /\ l2.state = "running"
    /\ exchange.srv = 2
    /\ exchange.response.status = 501

\* ------------------------------------- ServerSetup: HTTP and TLS listeners

\* C19: the plain-HTTP listener and the TLS listener of one server answer
\* every request alike: same status, same headers, same body; and a request
\* a listener has answered was answered from the endpoint list of its server.
C19_SameResponses ==
    /\ \A l1, l2 \in listeners :
          l1.srv = l2.srv =>
              \A request \in Requests : Respond(l1, request) = Respond(l2, request)
    /\ exchange # NoExchange =>
          exchange.response =
              request_handler(servers[exchange.srv].endpoints, exchange.request).response

\* A server with both listeners running and a mock endpoint; its TLS
\* listener has answered GET / with the mock response.
C19_Witness ==
    /\ \E l1, l2 \in listeners :
          /\ l1.srv = l2.srv
          /\ l1.kind = "http" /\ l2.kind = "https"
          /\ l1.state = "running" /\ l2.state = "running"
          /\ l1.appstate.endpoints # <<>>
          /\ exchange.srv = l2.srv
    /\ exchange.kind = "https"
    /\ exchange.response.status = 200

\* ------------------------------------------------ testit-lib: Server

\* The ServerConfiguration the lib's Server is written against: one port.
LibServerConfiguration(port, endpoints) == [port |-> port, endpoints |-> endpoints]

\* What a connection task's service call ends with: a response, or a panic
\* of an unwrap that unwinds the connection task.
Served(response) == [response |-> response, panicked |-> FALSE]
Panicked == [response |-> NoResponse, panicked |-> TRUE]

\* The lib's is_valid_endpoint: Regex::new(..).unwrap(), then the match.
lib_is_valid_endpoint(request, endpoint) ==
    IF ~RegexNewOk(endpoint.endpoint)
    THEN [panicked |-> TRUE, val |-> FALSE]
    ELSE [panicked |-> FALSE,
          val |-> is_match(endpoint.endpoint, request.path)
                  /\ request.method = endpoint.method]

\* create_mock_response: the sleep is tokio's, the status is given to
\* Response::builder(), whose body(..).unwrap() panics on an invalid status.
create_mock_response(mock_response) ==
    IF ~StatusCodeOk(mock_response.status)
    THEN Panicked
    ELSE Served(HttpResponse(mock_response.status,
                             AppendHeaders(NoHeaders, mock_response.headers),
                             IF mock_response.response.some
                             THEN mock_response.response.val ELSE <<>>))

\* Server::index from list position i on: an endpoint that matches and has
\* a mock response answers; one that matches without a mock response is
\* passed over.
RECURSIVE IndexFrom(_, _, _)
IndexFrom(endpoints, request, i) ==
    IF i > Len(endpoints)
    THEN Served(HttpResponse(501, NoHeaders, <<"No endpoint found">>))
    ELSE LET v == lib_is_valid_endpoint(request, endpoints[i])
         IN  IF v.panicked THEN Panicked
             ELSE IF v.val /\ endpoints[i].mock_response.some
                  THEN create_mock_response(endpoints[i].mock_response.val)
                  ELSE IndexFrom(endpoints, request, i + 1)

index(request, server_configuration) ==
    IndexFrom(server_configuration.endpoints, request, 1)

\* The task get_handle gives to tokio::task::spawn: it binds its port when
\* it is first polled, then loops over accept.  aborted: abort() was called
\* on its JoinHandle.
LibTask(server_configuration) ==
    [config |-> server_configuration, state |-> "spawned", aborted |-> FALSE]

\* The task the accept loop spawns for an accepted connection; nothing
\* keeps a handle to it.
LibConn(t) == [task |-> t, open |-> TRUE, served |-> 0, last |-> NoResponse]

\* The ports on which a TcpListener of this process is listening.
LibHeldPorts(tasks) ==
    { tasks[t].config.port : t \in { u \in DOMAIN tasks : tasks[u].state = "accepting" } }

\* The owner of the ServerSetup is between two calls.
LibPc(op, at, i, arg, handles) ==
    [op |-> op, at |-> at, i |-> i, arg |-> arg, handles |-> handles]
LibIdlePc == LibPc("idle", "", 0, <<>>, <<>>)

\* ------------------------------------------- testit-lib: ServerSetup

\* stop_servers is entered, from the owner or from setup_test.
EnterStopServers(op, arg) == lb_pc' = LibPc(op, "abort", 1, arg, <<>>)

\* The owner calls setup_test(test), which first calls stop_servers.
LibCallSetupTest(test) ==
    /\ lb_pc = LibIdlePc
    /\ EnterStopServers("setup_test", test.servers)
    /\ UNCHANGED <<lb_servers, lb_handles, lb_tasks, lb_conns, lb_mark,
                   rq_vars, wk_vars, dm_vars, io_vars, fn_vars>>

\* The owner calls stop_servers.
LibCallStopServers ==
    /\ lb_pc = LibIdlePc
    /\ EnterStopServers("stop_servers", <<>>)
    /\ UNCHANGED <<lb_servers, lb_handles, lb_tasks, lb_conns, lb_mark,
                   rq_vars, wk_vars, dm_vars, io_vars, fn_vars>>

\* handle.abort(): the task is marked for cancellation; the call returns
\* without waiting for the task.  A task that has ended is not affected.
abort(tasks, t) ==
    IF tasks[t].state \in { "spawned", "accepting" }
    THEN [tasks EXCEPT ![t].aborted = TRUE]
    ELSE tasks

\* stop_servers: the loop over self.handles, one handle.abort() per step.
LibAbortHandle ==
    /\ lb_pc.at = "abort"
    /\ lb_pc.i <= Len(lb_handles)
    /\ lb_tasks' = abort(lb_tasks, lb_handles[lb_pc.i])
    /\ lb_pc' = [lb_pc EXCEPT !.i = lb_pc.i + 1]
    /\ UNCHANGED <<lb_servers, lb_handles, lb_conns, lb_mark,
                   rq_vars, wk_vars, dm_vars, io_vars, fn_vars>>

\* stop_servers: self.servers.write().await.clear(), and the return, to the
\* owner or to setup_test.  self.handles is left as it is.
LibClearServers ==
    /\ lb_pc.at = "abort"
    /\ lb_pc.i > Len(lb_handles)
    /\ lb_servers' = <<>>
    /\ lb_mark' = Len(lb_tasks)
    /\ lb_pc' = IF lb_pc.op = "setup_test"
                 THEN [lb_pc EXCEPT !.at = "extend"]
                 ELSE LibIdlePc
    /\ UNCHANGED <<lb_handles, lb_tasks, lb_conns,
                   rq_vars, wk_vars, dm_vars, io_vars, fn_vars>>

\* setup_test after stop_servers: one Server per server of the test is
\* appended to the collection.
LibExtendServers ==
    /\ lb_pc.at = "extend"
    /\ lb_servers' = lb_servers \o lb_pc.arg
    /\ lb_pc' = LibIdlePc
    /\ UNCHANGED <<lb_handles, lb_tasks, lb_conns, lb_mark,
                   rq_vars, wk_vars, dm_vars, io_vars, fn_vars>>

\* The owner calls start_servers: let mut handles = vec![].
LibCallStartServers ==
    /\ lb_pc = LibIdlePc
    /\ Len(lb_tasks) + Len(lb_servers) <= MaxLibTasks
    /\ lb_pc' = LibPc("start_servers", "spawn", 1, <<>>, <<>>)
    /\ UNCHANGED <<lb_servers, lb_handles, lb_tasks, lb_conns, lb_mark,
                   rq_vars, wk_vars, dm_vars, io_vars, fn_vars>>

\* start_servers: handles.push(server.get_handle().await) for the next
\* server; get_handle spawns the server's task and returns its JoinHandle.
LibGetHandle ==
    /\ lb_pc.at = "spawn"
    /\ lb_pc.i <= Len(lb_servers)
    /\ lb_tasks' = Append(lb_tasks, LibTask(lb_servers[lb_pc.i]))
    /\ lb_pc' = [lb_pc EXCEPT !.i = lb_pc.i + 1,
                              !.handles = Append(lb_pc.handles, Len(lb_tasks) + 1)]
    /\ UNCHANGED <<lb_servers, lb_handles, lb_conns, lb_mark,
                   rq_vars, wk_vars, dm_vars, io_vars, fn_vars>>

\* start_servers: self.handles = handles, and the return.
LibStartServersReturn ==
    /\ lb_pc.at = "spawn"
    /\ lb_pc.i > Len(lb_servers)
    /\ lb_handles' = lb_pc.handles
    /\ lb_pc' = LibIdlePc
    /\ UNCHANGED <<lb_servers, lb_tasks, lb_conns, lb_mark,
                   rq_vars, wk_vars, dm_vars, io_vars, fn_vars>>

\* ------------------------------------------------- testit-lib: tasks

\* The task t is polled for the first time: TcpListener::bind(addr).await
\* .unwrap() panics when the port is taken, else the task enters its loop.
LibBind(t) ==
    /\ t <= Len(lb_tasks)
    /\ lb_tasks[t].state = "spawned"
    /\ lb_tasks' = [lb_tasks EXCEPT ![t].state =
                        IF lb_tasks[t].config.port \in LibHeldPorts(lb_tasks)
                        THEN "panicked" ELSE "accepting"]
    /\ UNCHANGED <<lb_servers, lb_handles, lb_conns, lb_pc, lb_mark,
                   rq_vars, wk_vars, dm_vars, io_vars, fn_vars>>

\* listener.accept() of task t returns a connection, and the loop spawns a
\* task that serves it.
LibAccept(t) ==
    /\ lb_tasks[t].state = "accepting"
    /\ Len(lb_conns) < MaxLibConns
    /\ lb_conns' = Append(lb_conns, LibConn(t))
    /\ UNCHANGED <<lb_servers, lb_handles, lb_tasks, lb_pc, lb_mark,
                   rq_vars, wk_vars, dm_vars, io_vars, fn_vars>>

\* The runtime processes the cancellation of the aborted task t: the task's
\* future is dropped, and its TcpListener with it.
LibCancel(t) ==
    /\ t <= Len(lb_tasks)
    /\ lb_tasks[t].aborted
    /\ lb_tasks[t].state \in { "spawned", "accepting" }
    /\ lb_tasks' = [lb_tasks EXCEPT ![t].state = "cancelled"]
    /\ UNCHANGED <<lb_servers, lb_handles, lb_conns, lb_pc, lb_mark,
                   rq_vars, wk_vars, dm_vars, io_vars, fn_vars>>

\* What the connection task does with a request: Server::index is called
\* with the configuration of the accept loop that spawned the task; a panic
\* ends the connection task.
AfterIndex(conn, r) ==
    IF r.panicked
    THEN [conn EXCEPT !.open = FALSE]
    ELSE [conn EXCEPT !.served = conn.served + 1, !.last = r.response]

\* The client of the open connection c sends a request (the first one, or
\* a further one on the kept-alive connection) and is answered.
LibServe(c, request) ==
    /\ lb_conns[c].open
    /\ lb_conns[c].served < MaxLibServed
    /\ lb_conns' = [lb_conns EXCEPT ![c] =
          AfterIndex(lb_conns[c], index(request, lb_tasks[lb_conns[c].task].config))]
    /\ UNCHANGED <<lb_servers, lb_handles, lb_tasks, lb_pc, lb_mark,
                   rq_vars, wk_vars, dm_vars, io_vars, fn_vars>>

\* ------------------------------------------------------------ SpecLib

\* The request the clients of the lib's servers send.
LibRequest == [path |-> <<"/">>, method |-> "GET"]

LibTests ==
    { TestConfiguration("t1", <<LibServerConfiguration(8080, <<FastEndpoint>>)>>),
      TestConfiguration("t2", <<LibServerConfiguration(8080, <<>>)>>),
      TestConfiguration("t3", <<LibServerConfiguration(8081, <<>>),
                                LibServerConfiguration(8080, <<FastEndpoint>>)>>) }

\* ServerSetup::new(): no servers, no handles; nothing was spawned.
LibInit ==
    /\ lb_servers = <<>>
    /\ lb_handles = <<>>
    /\ lb_tasks = <<>>
    /\ lb_conns = <<>>
    /\ lb_pc = LibIdlePc
    /\ lb_mark = 0
    /\ RqIdle /\ WkIdle /\ DmIdle /\ IoIdle /\ FnIdle

LibNext ==
    \/ \E test \in LibTests : LibCallSetupTest(test)
    \/ LibCallStopServers
    \/ LibAbortHandle
    \/ LibClearServers
    \/ LibExtendServers
    \/ LibCallStartServers
    \/ LibGetHandle
    \/ LibStartServersReturn
    \/ \E t \in 1..Len(lb_tasks) : LibBind(t) \/ LibAccept(t) \/ LibCancel(t)
    \/ \E c \in 1..Len(lb_conns) : LibServe(c, LibRequest)

SpecLib == LibInit /\ [][LibNext]_vars

\* The runtime polls every spawned task and processes every cancellation.
FairSpecLib ==
    /\ SpecLib
    /\ \A t \in 1..MaxLibTasks : WF_vars(LibBind(t)) /\ WF_vars(LibCancel(t))

\* ------------------------------------------------- testit-lib: properties

\* C15: once stop_servers has returned, no listener that was spawned before
\* it returned serves a request or accepts a connection any more: no
\* connection of such a listener is answered, and no new connection is
\* spawned by it.
C15_StopIsFinal ==
    [][ \A c \in 1..Len(lb_conns') :
            lb_conns'[c].task <= lb_mark
                => /\ c <= Len(lb_conns)
                   /\ lb_conns'[c].served = lb_conns[c].served
      ]_vars

\* start_servers has returned for a test that setup_test loaded in place of
\* a started one: the tasks of the handles were spawned after the
\* stop_servers of that setup_test returned.
StartedAfterReplace ==
    /\ lb_pc = LibIdlePc
    /\ lb_mark > 0
    /\ lb_servers # <<>>
    /\ Len(lb_handles) = Len(lb_servers)
    /\ \A k \in 1..Len(lb_handles) : lb_handles[k] > lb_mark

\* Every server of the collection has a task that accepts connections.
AllAccepting ==
    \A k \in 1..Len(lb_handles) : lb_tasks[lb_handles[k]].state = "accepting"

\* C16: when start_servers has returned for a test that replaced a started
\* one, the collection holds one listener per server of the new test, in
\* order, and none of the replaced test; and, unless the owner makes a
\* further call, every server of the new test eventually accepts
\* connections, also on a port the replaced test was using.
C16_ReplaceTest ==
    /\ [](StartedAfterReplace =>
            \A k \in 1..Len(lb_handles) :
                lb_tasks[lb_handles[k]].config = lb_servers[k])
    /\ StartedAfterReplace ~> (AllAccepting \/ ~StartedAfterReplace)

\* -------------------------------------------------------- SpecMatcher

\* The position of the first "?" of the request target, or one past its end.
QueryStart(uri) ==
    Min({ i \in 1..Len(uri) : uri[i] = "?" } \cup { Len(uri) + 1 })

\* The HttpRequest actix builds from a request line and a Host header: the
\* target is split at its first "?" into path and query.
HttpRequest(uri, host, method) ==
    [path |-> SubSeq(uri, 1, QueryStart(uri) - 1),
     query |-> SubSeq(uri, QueryStart(uri) + 1, Len(uri)),
     host |-> host,
     method |-> method]

MatcherPatterns ==
    { <<"/", "a">>, <<"a">>, <<"b">>, <<"^", "/", "a">>, <<"/", "a", "$">>,
      <<"^", "/", "a", "$">>, <<"^", "/", "$">>, <<"(">> }

MatcherTargets ==
    { <<"/">>, <<"/", "a">>, <<"/", "a", "b">>, <<"/", "b", "/", "a">>,
      <<"/", "?", "a">>, <<"/", "a", "?", "b">>, <<"/", "b", "?", "/", "a">> }

MatcherHosts == { "localhost", "a" }

\* "get" is the extension method of a request line that spells it so.
MatcherMethods == { "GET", "POST", "get" }

MatcherEndpoints ==
    { EndpointConfiguration(p, m, NoMock, NoRoute) :
        p \in MatcherPatterns, m \in EndpointMethods }

MatcherRequests ==
    { HttpRequest(uri, host, method) :
        uri \in MatcherTargets, host \in MatcherHosts, method \in MatcherMethods }

\* is_valid_endpoint has not returned yet.
NoMatchResult == Err(FALSE, NoError)

\* is_valid_endpoint is about to be called for an endpoint and a request.
MatcherInit ==
    /\ mt_endpoint \in MatcherEndpoints
    /\ mt_request \in MatcherRequests
    /\ mt_result = NoMatchResult
    /\ GmIdle /\ CfIdle /\ IoIdle /\ LbIdle /\ RqIdle /\ WkIdle /\ DmIdle

\* is_valid_endpoint(&req, endpoint) runs and returns.
IsValidEndpoint ==
    /\ mt_result = NoMatchResult
    /\ mt_result' = is_valid_endpoint(mt_request, mt_endpoint)
    /\ UNCHANGED <<mt_endpoint, mt_request, gm_vars, cf_vars,
                   rq_vars, wk_vars, dm_vars, io_vars, lb_vars>>

\* The loop of request_handler goes on to the next endpoint of the list.
NextEndpoint ==
    /\ mt_result = Ok(FALSE)
    /\ \E e \in MatcherEndpoints : mt_endpoint' = e
    /\ mt_result' = NoMatchResult
    /\ UNCHANGED <<mt_request, gm_vars, cf_vars, rq_vars, wk_vars, dm_vars, io_vars, lb_vars>>

MatcherNext == IsValidEndpoint \/ NextEndpoint

SpecMatcher == MatcherInit /\ [][MatcherNext]_vars

\* ------------------------------------------------- matcher: properties

\* The pattern without its anchors, and where the anchors fix it.
AnchoredAtStart(pattern) == Len(pattern) > 0 /\ pattern[1] = "^"
AnchoredAtEnd(pattern) == Len(pattern) > 0 /\ pattern[Len(pattern)] = "$"
Literal(pattern) ==
    SubSeq(pattern,
           IF AnchoredAtStart(pattern) THEN 2 ELSE 1,
           IF AnchoredAtEnd(pattern) THEN Len(pattern) - 1 ELSE Len(pattern))

\* The pattern, a literal with optional anchors, matches somewhere within
\* the text: the literal occurs in it, at the start and up to the end of
\* the text where the pattern is anchored.  A malformed pattern matches
\* nothing.
MatchesWithin(pattern, text) ==
    /\ \A i \in 1..Len(pattern) : pattern[i] # "("
    /\ \E j \in 1..(Len(text) + 1) :
          /\ j + Len(Literal(pattern)) - 1 <= Len(text)
          /\ SubSeq(text, j, j + Len(Literal(pattern)) - 1) = Literal(pattern)
          /\ AnchoredAtStart(pattern) => j = 1
          /\ AnchoredAtEnd(pattern) => j + Len(Literal(pattern)) - 1 = Len(text)

\* C17: is_valid_endpoint returns true iff the endpoint's pattern matches
\* somewhere within the path of the request and the method strings are
\* equal, character for character; the query string and the host of the
\* request make no difference to what it returns.
C17_MatcherIff ==
    mt_result # NoMatchResult
        => /\ (mt_result.ok /\ mt_result.val)
                <=> /\ MatchesWithin(mt_endpoint.endpoint, mt_request.path)
                    /\ mt_request.method = mt_endpoint.method
           /\ \A q \in MatcherRequests :
                 (q.path = mt_request.path /\ q.method = mt_request.method)
                     => is_valid_endpoint(q, mt_endpoint) = mt_result

\* "/a$" matches GET /a?b: the query is not part of what is matched.
C17_Witness ==
    /\ mt_endpoint.endpoint = <<"/", "a", "$">>
    /\ mt_endpoint.method = "GET"
    /\ mt_request.path = <<"/", "a">>
    /\ mt_request.query = <<"b">>
    /\ mt_request.method = "GET"
    /\ mt_result = Ok(TRUE)

\* ----------------------------------------------------------- SpecMock

\* status is a u16: the ends of its range and of the ranges that
\* StatusCode::from_u16 and the HTTP status classes draw.
MockStatuses == { 0, 99, 100, 200, 599, 600, 999, 1000, 65535 }

MockConfigurations ==
    { MockResponseConfiguration(r, st, h, d) :
        r \in { NoBody, Some(<<"{}">>) },
        st \in MockStatuses,
        h \in { {}, {<<"content-type", "json">>},
                 {<<"content-type", "json">>, <<"x-trace", "1">>} },
        d \in { 0, 1000 } }

\* generate_mock_response has not returned yet.
NoMockResult == Err(NoResponse, NoError)

\* generate_mock_response is about to be called for a mock response.
MockInit ==
    /\ gm_mock \in MockConfigurations
    /\ gm_result = NoMockResult
    /\ MtIdle /\ CfIdle /\ IoIdle /\ LbIdle /\ RqIdle /\ WkIdle /\ DmIdle

\* generate_mock_response(mock_response) runs and returns.
GenerateMockResponse ==
    /\ gm_result = NoMockResult
    /\ gm_result' = generate_mock_response(gm_mock)
    /\ UNCHANGED <<gm_mock, mt_vars, cf_vars, rq_vars, wk_vars, dm_vars, io_vars, lb_vars>>

\* The endpoint is matched by a further request: its mock response is
\* built again.
NextMockRequest ==
    /\ gm_result # NoMockResult
    /\ gm_result' = NoMockResult
    /\ UNCHANGED <<gm_mock, mt_vars, cf_vars, rq_vars, wk_vars, dm_vars, io_vars, lb_vars>>

MockNext == GenerateMockResponse \/ NextMockRequest

SpecMock == MockInit /\ [][MockNext]_vars

\* C18: for a status outside [100, 599] generate_mock_response returns a
\* configuration error, not a response that carries the status.
C18_StatusRange ==
    (gm_result # NoMockResult /\ InvalidStatus(gm_mock.status))
        => /\ ~gm_result.ok
           /\ gm_result.err.kind = "ConfigurationError"

\* --------------------------------------- workers: error containment

\* The request ends in one of the per-request errors: the scan stops at an
\* endpoint whose pattern is malformed, or at a matching endpoint whose mock
\* response has an invalid status code.
HitsError(endpoints, request) ==
    LET i == request_handler(endpoints, request).scanned
    IN  /\ i \in 1..Len(endpoints)
        /\ \/ ~RegexNewOk(endpoints[i].endpoint)
           \/ /\ is_valid_endpoint(request, endpoints[i]) = Ok(TRUE)
              /\ endpoints[i].mock_response.some
              /\ ~StatusCodeOk(endpoints[i].mock_response.val.status)

\* The request f has been answered, and it hit a per-request error.
FailedRequest(f) ==
    /\ wk_conns[f].state = "done"
    /\ HitsError(wk_endpoints[wk_conns[f].listener], wk_conns[f].request)

\* C20: once a request has hit a malformed pattern or an invalid status
\* code, the listeners still accept connections, every waiting request
\* whose worker is not in a delay can be handled, and every other request
\* that is answered gets the response request_handler gives for it alone.
C20_ErrorsContained ==
    \A f \in 1..MaxRequests :
        FailedRequest(f)
            => \A r \in (1..MaxRequests) \ {f} :
                  /\ wk_conns[r].state = "done"
                        => wk_conns[r].response =
                              request_handler(wk_endpoints[wk_conns[r].listener],
                                              wk_conns[r].request).response
                  /\ (wk_conns[r].state = "queued"
                        /\ ~ThreadBlocked(wk_conns[r].listener, wk_conns[r].worker))
                        => ENABLED Handle(r)
                  /\ (wk_conns[r].state = "none"
                        /\ \A q \in 1..(r - 1) : wk_conns[q].state # "none")
                        => ENABLED Accept(r)

\* One listener has answered a request that ran into the malformed pattern
\* (503), one that ran into the invalid status (501), and then GET / (200).
C20_Witness ==
    /\ \A r \in 1..3 : wk_conns[r].state = "done" /\ wk_conns[r].listener = "http"
    /\ wk_conns[1].request.path = <<"/", "a">>
    /\ wk_conns[1].response.status = 503
    /\ wk_conns[2].request.path = <<"/", "a", "b">>
    /\ wk_conns[2].response = NotImplemented
    /\ FailedRequest(1) /\ FailedRequest(2)
    /\ wk_conns[3].response.status = 200

\* --------------------------------------------- workers: determinism

\* C21: two requests with the same path and method that the same listener
\* has answered were given the same status, headers and body, whatever other
\* requests were handled in between or at the same time and whichever
\* workers handled them.
C21_DeterministicRouting ==
    \A r, q \in 1..MaxRequests :
        ( /\ wk_conns[r].state = "done"
          /\ wk_conns[q].state = "done"
          /\ wk_conns[r].listener = wk_conns[q].listener
          /\ wk_conns[r].request = wk_conns[q].request )
            => wk_conns[r].response = wk_conns[q].response

\* The first and the third request of a listener are the same delayed
\* request, handled by the same worker, with a different request handled by
\* the other worker in between; both were answered 400.
C21_Witness ==
    /\ \A r \in 1..3 : wk_conns[r].state = "done" /\ wk_conns[r].listener = "http"
    /\ wk_conns[1].request = wk_conns[3].request
    /\ wk_conns[1].request.path = <<"/", "a", "b">>
    /\ wk_conns[2].request.path = <<"/">>
    /\ wk_conns[1].worker = wk_conns[3].worker
    /\ wk_conns[2].worker # wk_conns[1].worker
    /\ wk_conns[1].response.status = 400
    /\ wk_conns[3].response.status = 400

\* ------------------------------------------- start_servers and the lock

\* Some of the tasks whose handles start_servers stored have made their
\* bind attempt and others have not yet been polled.
LibBetweenBinds ==
    \E j, k \in 1..Len(lb_handles) :
        /\ lb_tasks[lb_handles[j]].state # "spawned"
        /\ lb_tasks[lb_handles[k]].state = "spawned"

\* C22: the bind attempts of one start_servers call are made while the call
\* holds the write lock of the collection, so no step of a stop_servers (an
\* abort of a handle, the clearing of the collection) is taken when some of
\* the call's bind attempts have been made and others are still to come.
C22_StartServersAtomic ==
    [][ (lb_pc.at = "abort" /\ lb_pc' # lb_pc) => ~LibBetweenBinds ]_vars

\* ------------------------------------------- configuration files: JSON

\* The values of a JSON document (serde_json's data model).
JNull == [t |-> "null"]
JString(s) == [t |-> "string", v |-> s]
JNumber(n) == [t |-> "number", v |-> n]
JArray(a) == [t |-> "array", v |-> a]
JObject(m) == [t |-> "object", v |-> m]

\* Option<T>: None is written as null; a field of a derived struct is read
\* as None when its key is missing or null, and as Some otherwise.
Present(j, key) == key \in DOMAIN j.v /\ j.v[key].t # "null"

\* Vec<T> is written as a JSON array, in order, and read from one.
IsArray(j) == j.t = "array"

\* Serialize and Deserialize for HashMap<String, String>: a JSON object with
\* one member per key.
ser_map(m) ==
    JObject([k \in { h[1] : h \in m } |->
                JString((CHOOSE h \in m : h[1] = k)[2])])
de_map(j) == { <<k, j.v[k].v>> : k \in DOMAIN j.v }

de_string(j) == j.v
de_number(j) == j.v

\* The JSON value is an object that has the keys (the fields of the struct
\* that are not Options).
HasKeys(j, keys) == j.t = "object" /\ keys \subseteq DOMAIN j.v

IsString(j) == j.t = "string"
IsU16(j) == j.t = "number" /\ j.v \in 0..65535
IsU64(j) == j.t = "number" /\ j.v >= 0
IsMap(j) == j.t = "object" /\ \A k \in DOMAIN j.v : IsString(j.v[k])

\* -------------------------------- configuration files: the derived impls

\* The structs of config.rs with all their fields; the id is the one the
\* constructor generated or the file gave.
NoSoapAction == NoneOf("")

EndpointFields(id, soap_action, e) ==
    [id |-> id, endpoint |-> e.endpoint, method |-> e.method,
     soap_action |-> soap_action, mock_response |-> e.mock_response,
     route |-> e.route]

ServerFields(id, name, srv) ==
    [id |-> id, name |-> name, http_port |-> srv.http_port,
     endpoints |-> srv.endpoints, https_config |-> srv.https_config]

TestFields(name, description, test) ==
    [id |-> test.id, name |-> name, description |-> description,
     servers |-> test.servers]

AppConfiguration(name, description, tests) ==
    [name |-> name, description |-> description, tests |-> tests]

\* #[derive(Serialize)] with rename_all = "camelCase", struct by struct.
ser_route(r) == JObject([endpoint |-> JString(r.endpoint)])

ser_mock_response(m) ==
    JObject([response |-> (IF m.response.some THEN JString(m.response.val) ELSE JNull),
             status |-> JNumber(m.status),
             headers |-> ser_map(m.headers),
             delay |-> JNumber(m.delay)])

ser_endpoint(e) ==
    JObject([id |-> JString(e.id),
             endpoint |-> JString(e.endpoint),
             method |-> JString(e.method),
             soapAction |-> (IF e.soap_action.some THEN JString(e.soap_action.val) ELSE JNull),
             mockResponse |-> (IF e.mock_response.some
                              THEN ser_mock_response(e.mock_response.val) ELSE JNull),
             route |-> (IF e.route.some THEN ser_route(e.route.val) ELSE JNull)])

ser_https(h) ==
    JObject([serverCertificate |-> JString(h.server_certificate),
             privateKey |-> JString(h.private_key),
             httpsPort |-> JNumber(h.https_port)])

ser_server(srv) ==
    JObject([id |-> JString(srv.id),
             name |-> JString(srv.name),
             httpPort |-> (IF srv.http_port.some THEN JNumber(srv.http_port.val) ELSE JNull),
             endpoints |-> JArray([i \in 1..Len(srv.endpoints) |->
                                    ser_endpoint(srv.endpoints[i])]),
             httpsConfig |-> (IF srv.https_config.some
                             THEN ser_https(srv.https_config.val) ELSE JNull)])

ser_test(test) ==
    JObject([id |-> JString(test.id),
             name |-> JString(test.name),
             description |-> JString(test.description),
             servers |-> JArray([i \in 1..Len(test.servers) |->
                                  ser_server(test.servers[i])])])

\* serde_json::to_string(&configuration)
serialize(cfg) ==
    JObject([name |-> JString(cfg.name),
             description |-> JString(cfg.description),
             tests |-> JArray([i \in 1..Len(cfg.tests) |-> ser_test(cfg.tests[i])])])

\* #[derive(Deserialize)]: what the document must be for each struct.
valid_route(j) == HasKeys(j, {"endpoint"}) /\ IsString(j.v.endpoint)

valid_mock_response(j) ==
    /\ HasKeys(j, {"status", "headers", "delay"})
    /\ (Present(j, "response") => IsString(j.v.response))
    /\ IsU16(j.v.status)
    /\ IsMap(j.v.headers)
    /\ IsU64(j.v.delay)

valid_endpoint(j) ==
    /\ HasKeys(j, {"id", "endpoint", "method"})
    /\ IsString(j.v.id) /\ IsString(j.v.endpoint) /\ IsString(j.v.method)
    /\ (Present(j, "soapAction") => IsString(j.v.soapAction))
    /\ (Present(j, "mockResponse") => valid_mock_response(j.v.mockResponse))
    /\ (Present(j, "route") => valid_route(j.v.route))

valid_https(j) ==
    /\ HasKeys(j, {"serverCertificate", "privateKey", "httpsPort"})
    /\ IsString(j.v.serverCertificate) /\ IsString(j.v.privateKey)
    /\ IsU16(j.v.httpsPort)

valid_server(j) ==
    /\ HasKeys(j, {"id", "name", "endpoints"})
    /\ IsString(j.v.id) /\ IsString(j.v.name)
    /\ (Present(j, "httpPort") => IsU16(j.v.httpPort))
    /\ IsArray(j.v.endpoints)
    /\ \A i \in 1..Len(j.v.endpoints.v) : valid_endpoint(j.v.endpoints.v[i])
    /\ (Present(j, "httpsConfig") => valid_https(j.v.httpsConfig))

valid_test(j) ==
    /\ HasKeys(j, {"id", "name", "description", "servers"})
    /\ IsString(j.v.id) /\ IsString(j.v.name) /\ IsString(j.v.description)
    /\ IsArray(j.v.servers)
    /\ \A i \in 1..Len(j.v.servers.v) : valid_server(j.v.servers.v[i])

valid_configuration(j) ==
    /\ HasKeys(j, {"name", "description", "tests"})
    /\ IsString(j.v.name) /\ IsString(j.v.description)
    /\ IsArray(j.v.tests)
    /\ \A i \in 1..Len(j.v.tests.v) : valid_test(j.v.tests.v[i])

\* #[derive(Deserialize)]: the struct built from a valid document; every
\* field, the id included, is read from its key.
de_route(j) == RouteConfiguration(de_string(j.v.endpoint))

de_mock_response(j) ==
    MockResponseConfiguration(IF Present(j, "response")
                              THEN Some(de_string(j.v.response)) ELSE NoBody,
                              de_number(j.v.status),
                              de_map(j.v.headers),
                              de_number(j.v.delay))

\* A Deserialize that builds the endpoint with EndpointConfiguration::new,
\* which generates a fresh id.
de_endpoint_new(j) ==
    EndpointFields("generated-uuid",
        IF Present(j, "soapAction") THEN Some(de_string(j.v.soapAction)) ELSE NoSoapAction,
        EndpointConfiguration(
            de_string(j.v.endpoint),
            de_string(j.v.method),
            IF Present(j, "mockResponse")
            THEN Some(de_mock_response(j.v.mockResponse)) ELSE NoMock,
            IF Present(j, "route") THEN Some(de_route(j.v.route)) ELSE NoRoute))

de_endpoint(j) ==
    EndpointFields(de_string(j.v.id),
        IF Present(j, "soapAction") THEN Some(de_string(j.v.soapAction)) ELSE NoSoapAction,
        EndpointConfiguration(
            de_string(j.v.endpoint),
            de_string(j.v.method),
            IF Present(j, "mockResponse")
            THEN Some(de_mock_response(j.v.mockResponse)) ELSE NoMock,
            IF Present(j, "route") THEN Some(de_route(j.v.route)) ELSE NoRoute))

de_https(j) ==
    HttpsConfiguration(de_string(j.v.serverCertificate),
                       de_string(j.v.privateKey),
                       de_number(j.v.httpsPort))

de_server(j) ==
    ServerFields(de_string(j.v.id), de_string(j.v.name),
        ServerConfiguration(
            IF Present(j, "httpPort") THEN Some(de_number(j.v.httpPort)) ELSE NoPort,
            [i \in 1..Len(j.v.endpoints.v) |-> de_endpoint(j.v.endpoints.v[i])],
            IF Present(j, "httpsConfig") THEN Some(de_https(j.v.httpsConfig)) ELSE NoHttps))

de_test(j) ==
    TestFields(de_string(j.v.name), de_string(j.v.description),
        TestConfiguration(de_string(j.v.id),
            [i \in 1..Len(j.v.servers.v) |-> de_server(j.v.servers.v[i])]))

NoAppConfiguration == AppConfiguration("", "", <<>>)

\* serde_json::from_str::<AppConfiguration>(&string_data)
from_str(j) ==
    IF valid_configuration(j)
    THEN Ok(AppConfiguration(de_string(j.v.name), de_string(j.v.description),
                             [i \in 1..Len(j.v.tests.v) |-> de_test(j.v.tests.v[i])]))
    ELSE Err(NoAppConfiguration, AppError("FileError", <<"invalid configuration">>))

\* The file system at the path: no file, or a file with a document.
NoFile == [exists |-> FALSE, data |-> JNull]
File(data) == [exists |-> TRUE, data |-> data]

\* AppConfiguration::save: the document is written to the path, or
\* std::fs::write fails and the path is left as it was.
save(cfg, file, write_ok) ==
    IF write_ok
    THEN [result |-> Ok("saved"), file |-> File(serialize(cfg))]
    ELSE [result |-> Err("", AppError("FileError", <<"Permission denied">>)),
          file |-> file]

\* AppConfiguration::load: read_to_string, then from_str.
load(file) ==
    IF file.exists
    THEN from_str(file.data)
    ELSE Err(NoAppConfiguration, AppError("FileError", <<"No such file or directory">>))

\* ---------------------------------------------------------- SpecConfig

\* Endpoints with every combination of present and absent optional fields,
\* with an id and with the empty id.
ConfigEndpoints ==
    { EndpointFields(id, soap, EndpointConfiguration(<<"/", "a">>, "GET", mock, route)) :
        id \in { "", "e-1" },
        soap \in { NoSoapAction, Some("urn:op") },
        mock \in { NoMock,
                   Some(MockResponseConfiguration(NoBody, 200, {}, 0)),
                   Some(MockResponseConfiguration(Some(<<"{}">>), 404,
                          { <<"content-type", "json">>, <<"x-a", "1">> }, 1000)) },
        route \in { NoRoute, Some(RouteConfiguration(<<"/", "r">>)) } }

\* Endpoint lists: empty, one endpoint, and two endpoints with the same id.
ConfigEndpointLists ==
    { <<>> } \cup { <<e>> : e \in ConfigEndpoints }
             \cup { <<e, e>> : e \in { x \in ConfigEndpoints : x.id = "e-1" /\ x.route.some } }

ConfigServers ==
    { ServerFields("s-1", "server", ServerConfiguration(port, eps, https)) :
        port \in { NoPort, Some(8080) },
        eps \in ConfigEndpointLists,
        https \in { NoHttps,
                    Some(HttpsConfiguration("server_cert.pem", "server_key.pem", 8443)) } }

ConfigTests ==
    { TestFields("test", "", TestConfiguration("t-1", <<>>)) }
        \cup { TestFields("test", "a test", TestConfiguration("t-1", <<srv>>)) :
                  srv \in ConfigServers }

\* Configurations: no test, one test, and two tests with the same id.
AppConfigurations ==
    { AppConfiguration("app", "", <<>>) }
        \cup { AppConfiguration("app", "an app", <<test>>) : test \in ConfigTests }
        \cup { AppConfiguration("app", "an app", <<test, test>>) :
                  test \in { x \in ConfigTests : x.servers = <<>> } }

\* What is at the path before save: nothing, a configuration saved earlier,
\* or a document that is not a configuration.
ConfigInitialFiles ==
    { NoFile,
      File(serialize(AppConfiguration("old", "", <<>>))),
      File(JObject([name |-> JString("app")])) }

NoConfigResult == Err(NoAppConfiguration, NoError)

ConfigInit ==
    /\ cf_config \in AppConfigurations
    /\ cf_pc = "start"
    /\ cf_json = JNull
    /\ cf_file \in ConfigInitialFiles
    /\ cf_saved = Ok("none")
    /\ cf_result = NoConfigResult
    /\ MtIdle /\ GmIdle /\ IoIdle /\ LbIdle /\ RqIdle /\ WkIdle /\ DmIdle

\* let serialized = serde_json::to_string(&configuration).unwrap()
Serialize ==
    /\ cf_pc = "start"
    /\ cf_json' = serialize(cf_config)
    /\ cf_pc' = "serialized"
    /\ UNCHANGED <<cf_config, cf_file, cf_saved, cf_result,
                   mt_vars, gm_vars, rq_vars, wk_vars, dm_vars, io_vars, lb_vars>>

\* let deserialized: AppConfiguration = serde_json::from_str(&serialized)
Deserialize ==
    /\ cf_pc = "serialized"
    /\ cf_result' = from_str(cf_json)
    /\ cf_pc' = "deserialized"
    /\ UNCHANGED <<cf_config, cf_json, cf_file, cf_saved,
                   mt_vars, gm_vars, rq_vars, wk_vars, dm_vars, io_vars, lb_vars>>

\* configuration.save(path): the write succeeds or fails.
Save ==
    /\ cf_pc = "start"
    /\ \E write_ok \in BOOLEAN :
          /\ cf_saved' = save(cf_config, cf_file, write_ok).result
          /\ cf_file' = save(cf_config, cf_file, write_ok).file
    /\ cf_pc' = "saved"
    /\ UNCHANGED <<cf_config, cf_json, cf_result,
                   mt_vars, gm_vars, rq_vars, wk_vars, dm_vars, io_vars, lb_vars>>

\* AppConfiguration::load(path), after a save or on the file as it was found.
Load ==
    /\ cf_pc \in { "start", "saved" }
    /\ cf_result' = load(cf_file)
    /\ cf_pc' = "loaded"
    /\ UNCHANGED <<cf_config, cf_json, cf_file, cf_saved,
                   mt_vars, gm_vars, rq_vars, wk_vars, dm_vars, io_vars, lb_vars>>

ConfigNext == Serialize \/ Deserialize \/ Save \/ Load

SpecConfig == ConfigInit /\ [][ConfigNext]_vars

\* C23: deserializing the serialization of a configuration gives a value
\* equal to the configuration, with absent optional fields absent and every
\* id as it was; and load after a save that succeeded gives a value equal
\* to the saved configuration.
C23_RoundTrip ==
    /\ cf_pc = "deserialized" => cf_result = Ok(cf_config)
    /\ (cf_pc = "loaded" /\ cf_saved = Ok("saved")) => cf_result = Ok(cf_config)

\* A configuration whose server has no HTTP port and no TLS configuration,
\* and whose endpoint has the empty id, no SOAP action and no route and a
\* mock response without body, was saved and loaded.
C23_Witness ==
    /\ cf_pc = "loaded"
    /\ cf_saved = Ok("saved")
    /\ cf_result.ok
    /\ Len(cf_result.val.tests) = 1
    /\ Len(cf_result.val.tests[1].servers) = 1
    /\ LET srv == cf_result.val.tests[1].servers[1]
       IN  /\ ~srv.http_port.some
           /\ ~srv.https_config.some
           /\ Len(srv.endpoints) = 1
           /\ srv.endpoints[1].id = ""
           /\ ~srv.endpoints[1].soap_action.some
           /\ ~srv.endpoints[1].route.some
           /\ srv.endpoints[1].mock_response.some
           /\ ~srv.endpoints[1].mock_response.val.response.some

\* ------------------------------------------- response synthesis: content

\* C24: for a mock response with a status in [100, 599],
\* generate_mock_response returns a response with the configured status,
\* with one header line for each configured (name, value) pair and no other
\* line, and with the configured body, or the empty body when none is
\* configured.
C24_ResponseAsConfigured ==
    (gm_result # NoMockResult /\ ~InvalidStatus(gm_mock.status))
        => /\ gm_result.ok
           /\ gm_result.val.status = gm_mock.status
           /\ BagToSet(gm_result.val.headers) = gm_mock.headers
           /\ \A pair \in gm_mock.headers :
                  CopiesIn(pair, gm_result.val.headers) = 1
           /\ gm_result.val.body =
                  IF gm_mock.response.some THEN gm_mock.response.val ELSE <<>>

\* A response without body and with two header lines was synthesized.
C24_Witness ==
    /\ gm_result.ok
    /\ gm_mock.status = 599
    /\ ~gm_mock.response.some
    /\ Cardinality(gm_mock.headers) = 2
    /\ BagCardinality(gm_result.val.headers) = 2
    /\ gm_result.val.status = 599
    /\ gm_result.val.body = <<>>

\* ------------------------------------------------- workers: the delay

\* The delay configured for a request: the delay of the mock response of
\* the first endpoint that matches it, when the scan gets that far and the
\* endpoint has a mock response; no delay otherwise.
ConfiguredDelay(endpoints, request) ==
    LET matching == { i \in 1..Len(endpoints) : MatchesEndpoint(request, endpoints[i]) }
        invalid == { i \in 1..Len(endpoints) : ~RegexNewOk(endpoints[i].endpoint) }
    IN  IF /\ matching # {}
           /\ \A j \in invalid : j > Min(matching)
           /\ endpoints[Min(matching)].mock_response.some
        THEN endpoints[Min(matching)].mock_response.val.delay
        ELSE 0

\* C25: a request with a configured delay d > 0 is answered only when its
\* handler has been through the wait; a request whose delay is 0, that no
\* endpoint matches, or whose matching endpoint has no mock response, is
\* answered by its handler without a wait; and a handler starts a wait only
\* for a request with a configured delay.
C25_DelayBeforeResponse ==
    [][ \A r \in 1..MaxRequests :
          LET d == ConfiguredDelay(wk_endpoints[wk_conns'[r].listener],
                                   wk_conns'[r].request)
          IN  /\ (wk_conns[r].state # "done" /\ wk_conns'[r].state = "done")
                    => wk_conns[r].state = IF d > 0 THEN "sleeping" ELSE "queued"
              /\ (wk_conns[r].state # "sleeping" /\ wk_conns'[r].state = "sleeping")
                    => d > 0 /\ wk_conns[r].state = "queued"
      ]_vars

\* Three requests to one listener were answered: one after the delay of its
\* endpoint, one matched by an endpoint without mock response, one matched
\* by no endpoint.
C25_Witness ==
    /\ wk_endpoints["http"] = <<UnconfiguredEndpoint, SlowEndpoint>>
    /\ \A r \in 1..3 : wk_conns[r].state = "done" /\ wk_conns[r].listener = "http"
    /\ wk_conns[1].request.path = <<"/", "a", "b">>
    /\ wk_conns[1].response.status = 400
    /\ wk_conns[2].request.path = <<"/", "a">>
    /\ wk_conns[2].response = NotImplemented
    /\ wk_conns[3].request.path = <<"/">>
    /\ wk_conns[3].response = NotImplemented

\* ------------------------------------------------------- SpecRouteFields

\* Endpoints with all their fields: with and without SOAP action, route and
\* mock response.
FieldEndpoints ==
    { EndpointFields("e-1", soap, EndpointConfiguration(p, "GET", mock, route)) :
        p \in { <<"/", "a">>, <<"/", "a", "b">> },
        soap \in { NoSoapAction, Some("urn:op") },
        mock \in { NoMock, Some(MockResponseConfiguration(Some(<<"{}">>), 200, {}, 1000)) },
        route \in { NoRoute, Some(RouteConfiguration(<<"http://backend">>)) } }

\* A listener serving a list of such endpoints has received a request.
RouteFieldsInit ==
    /\ rq_endpoints \in SeqsUpTo(FieldEndpoints, MaxEndpoints)
    /\ rq_request \in Requests
    /\ rq_pc = "recv"
    /\ rq_outcome = NoOutcome
    /\ WkIdle
    /\ DmIdle
    /\ RestIdle

SpecRouteFields == RouteFieldsInit /\ [][RoutingNext]_vars

\* The endpoint list with every route and every SOAP action taken out.
WithoutRouteFields(endpoints) ==
    [i \in 1..Len(endpoints) |->
        [endpoints[i] EXCEPT !.route = NoRoute, !.soap_action = NoSoapAction]]

\* C26: the route and the SOAP action of the endpoints have no influence on
\* what request_handler does: the response, the endpoint the scan stops at
\* and the delay are those of the same list without routes and SOAP
\* actions; and a matched endpoint with a route and without mock response
\* is answered 501 "Not implemented".
C26_RouteFieldsIgnored ==
    rq_pc = "done"
        => /\ rq_outcome = request_handler(WithoutRouteFields(rq_endpoints), rq_request)
           /\ (HasMatch /\ ~FirstMatch.mock_response.some /\ FirstMatch.route.some)
                  => rq_outcome.response = NotImplemented

\* The request was matched by a first endpoint with a route, a SOAP action
\* and no mock response, ahead of an endpoint with a mock response, and was
\* answered 501.
C26_Witness ==
    /\ rq_pc = "done"
    /\ Len(rq_endpoints) = 2
    /\ HasMatch
    /\ Min(MatchingIdx) = 1
    /\ rq_endpoints[1].route.some
    /\ rq_endpoints[1].soap_action.some
    /\ ~rq_endpoints[1].mock_response.some
    /\ rq_endpoints[2].mock_response.some
    /\ MatchesEndpoint(rq_request, rq_endpoints[2])
    /\ rq_outcome.response = NotImplemented
    /\ rq_outcome.scanned = 1

\* --------------------------------------------------------- SpecLibIndex

\* Endpoints of the lib's servers: for the path "/" one without mock
\* response, one with only a route, and two with mock responses; one for
\* another path; one with an invalid status and one with a malformed pattern.
LibRootUnconfigured == EndpointConfiguration(<<"^", "/", "$">>, "GET", NoMock, NoRoute)
LibRootRouteOnly ==
    EndpointConfiguration(<<"^", "/", "$">>, "GET", NoMock,
                          Some(RouteConfiguration(<<"http://backend">>)))
LibRootGone ==
    EndpointConfiguration(<<"/">>, "GET",
        Some(MockResponseConfiguration(Some(<<"gone">>), 410, {}, 0)), NoRoute)
LibRootBadStatus ==
    EndpointConfiguration(<<"^", "/", "$">>, "GET",
        Some(MockResponseConfiguration(Some(<<"{}">>), 99, {}, 0)), NoRoute)

LibEndpoints ==
    { LibRootUnconfigured, LibRootRouteOnly, LibRootGone, LibRootBadStatus,
      FastEndpoint, SlowEndpoint, BadPatternEndpoint }

\* setup_test and start_servers have run for a test with one server, and
\* the server's task has bound its port and is in its accept loop.
LibIndexInit ==
    /\ \E eps \in SeqsUpTo(LibEndpoints, MaxEndpoints) :
          /\ lb_servers = <<LibServerConfiguration(8082, eps)>>
          /\ lb_tasks = <<[LibTask(LibServerConfiguration(8082, eps))
                              EXCEPT !.state = "accepting"]>>
    /\ lb_handles = <<1>>
    /\ lb_conns = <<>>
    /\ lb_pc = LibIdlePc
    /\ lb_mark = 0
    /\ RqIdle /\ WkIdle /\ DmIdle /\ IoIdle /\ FnIdle

\* Clients connect and send their request; the owner makes no further call.
LibIndexNext ==
    \/ \E t \in 1..Len(lb_tasks) : LibAccept(t)
    \/ \E c \in 1..Len(lb_conns) : LibServe(c, LibRequest)

SpecLibIndex == LibIndexInit /\ [][LibIndexNext]_vars

\* The endpoints of the connection's server that match the request.
LibMatching(c) ==
    LET eps == lb_tasks[lb_conns[c].task].config.endpoints
    IN  { i \in 1..Len(eps) : MatchesEndpoint(LibRequest, eps[i]) }

\* The request of connection c was answered, and the first endpoint of its
\* server that matches the request has no mock response; no pattern of the
\* server is malformed.
LibFirstMatchUnconfigured(c) ==
    LET eps == lb_tasks[lb_conns[c].task].config.endpoints
    IN  /\ lb_conns[c].served > 0
        /\ \A i \in 1..Len(eps) : RegexNewOk(eps[i].endpoint)
        /\ LibMatching(c) # {}
        /\ ~eps[Min(LibMatching(c))].mock_response.some

\* C27: in the lib too the first matching endpoint decides: when it has no
\* mock response the request is answered 501, and the mock response of a
\* later matching endpoint is not returned.
C27_LibFirstMatchDecides ==
    \A c \in 1..Len(lb_conns) :
        LibFirstMatchUnconfigured(c) => lb_conns[c].last.status = 501

\* ------------------------------------------------- testit-lib: handles

\* The tasks a JoinHandle of the ServerSetup refers to: the handles stored
\* in self.handles and, while start_servers runs, those of its local vector.
LibTracked ==
    { lb_handles[k] : k \in 1..Len(lb_handles) }
        \cup { lb_pc.handles[k] : k \in 1..Len(lb_pc.handles) }

\* C28: every accept-loop task that is still running (spawned and neither
\* panicked nor cancelled) is referred to by a handle of the ServerSetup,
\* whatever calls of setup_test, start_servers and stop_servers were made.
C28_RunningTasksTracked ==
    \A t \in 1..Len(lb_tasks) :
        lb_tasks[t].state \in { "spawned", "accepting" } => t \in LibTracked

\* ------------------------------------------------------------ SpecPorts

\* Servers that compete for ports: an HTTP server, a server with HTTP and
\* TLS on the same port, and a server that shares a port with each.
PortServerConfigs ==
    { HttpOnly(8080),
      ServerConfiguration(Some(8443), <<FastEndpoint>>, GoodTls),
      ServerConfiguration(Some(8080), <<FastEndpoint>>, GoodTls) }

\* setup_test has been called once, for a test with such servers.
PortsInit ==
    /\ \E t \in SeqsUpTo(PortServerConfigs, MaxServers) :
          /\ Len(t) > 0
          /\ servers = setup_test(<<>>, TestConfiguration("test", t))
          /\ setup_arg = TestConfiguration("test", t)
    /\ ss_pc = "idle"
    /\ start_calls = 0
    /\ attempts = <<>>
    /\ listeners = {}
    /\ start_result = Ok("none")
    /\ exchange = NoExchange
    /\ MnIdle /\ RqIdle /\ WkIdle /\ FnIdle /\ LbIdle

PortsNext == CallStartServers \/ ServerSetupNext

SpecPorts == PortsInit /\ [][PortsNext]_vars

\* The port the start operation that start_servers is about to call binds,
\* if it binds one.
AttemptPort ==
    LET server == servers[CurrentServer]
    IN  IF Len(attempts) % 2 = 0
        THEN server.http_port
        ELSE IF server.https_config.some
             THEN Some(server.https_config.val.https_port)
             ELSE NoPort

\* start_servers is about to call a start operation for a port that a
\* listener of this process holds.
AttemptOnHeldPort ==
    /\ ss_pc = "starting"
    /\ Len(attempts) < 2 * Len(servers)
    /\ AttemptPort.some
    /\ AttemptPort.val \in HeldPorts(listeners)

\* C29: no two listeners of the process hold the same port; and a start
\* operation for a port that a listener holds fails with a
\* ServerStartUpError that ends start_servers, creates no listener and
\* leaves every listener as it was, with its own endpoint list.
C29_OneListenerPerPort ==
    /\ [](\A l1, l2 \in listeners : l1.port = l2.port => l1 = l2)
    /\ [][ (AttemptOnHeldPort /\ attempts' # attempts)
              => /\ ~start_result'.ok
                 /\ start_result'.err.kind = "ServerStartUpError"
                 /\ ss_pc' = "idle"
                 /\ listeners' = listeners
         ]_vars

\* The HTTP listener of a server with equal HTTP and TLS ports is running
\* and has answered a request from its endpoint list; the TLS start of the
\* server failed with "Address already in use".
C29_Witness ==
    /\ servers[1].http_port = Some(8443)
    /\ attempts = <<"bound", "failed">>
    /\ start_result = Err("returned", AddrInUse)
    /\ \E l \in listeners :
          /\ l.port = 8443 /\ l.kind = "http" /\ l.state = "running"
          /\ exchange = Exchange(l, [path |-> <<"/">>, method |-> "GET"],
                                 Respond(l, [path |-> <<"/">>, method |-> "GET"]))
          /\ exchange.response.status = 200
    /\ Cardinality(listeners) = 1

\* ------------------------------------------------------ daemon: list mode

\* C30: with --list, init returns Ok whether or not an id was given and
\* whether or not a test has it; no test is loaded into a ServerSetup,
\* start_servers is never called, no listener exists in any state of the
\* run, and the run never ends with a missing-id or test-not-found error.
C30_ListModeStartsNothing ==
    /\ [](args.list =>
            /\ listeners = {}
            /\ servers = <<>>
            /\ start_calls = 0
            /\ ss_pc = "idle"
            /\ setup_arg = [id |-> "", servers |-> <<>>]
            /\ main_result.err.kind \notin { "MissingId", "CouldNotFindTest" })
    /\ [][ (args.list /\ pc = "init")
              => (pc' = "wait" /\ main_result' = Ok("none")) ]_vars

\* The daemon was run with --list and with the id of a test that has a
\* server; init has returned Ok and nothing was started.
C30_Witness ==
    /\ args.list
    /\ args.id.some
    /\ pc = "wait"
    /\ main_result = Ok("none")
    /\ \E i \in 1..Len(config.tests) :
          /\ config.tests[i].id = args.id.val
          /\ config.tests[i].servers # <<>>
    /\ listeners = {}

====
